---- MODULE Spec2Model ----
(***************************************************************************)
(* Model of the promsync.Syncer of aranet4-prom-collector: the per-metric  *)
(* cache of last-written times, the cold-cache query of the backend and    *)
(* the remote write of one sample per ReportMetric call.                   *)
(*                                                                         *)
(* Instants (time.Time) are integers counted in ticks from Go's zero       *)
(* instant (time.Time{}, year 1); a tick is a unit finer than the          *)
(* millisecond the remote-write protocol carries.  Instants before the     *)
(* zero instant are negative.  The wall clock is taken to be               *)
(* non-decreasing.  The float64 rounding of the backend's answer is below  *)
(* the resolution of a tick and is not represented.                        *)
(*                                                                         *)
(* The collector drives the Syncer: SpecRefresh is the cycle of            *)
(* collector.refresh under collector.run, SpecWeb adds the handlers of     *)
(* ServeHTTP, and SpecPasskey is the passkey mediator between a pairing    *)
(* attempt, the terminal and the passkey submissions of the web endpoint.  *)
(***************************************************************************)
EXTENDS Integers, Sequences, FiniteSets, TLC

\* ---------------------------------------------------------------- bounds
\* ticks in one millisecond (time.Millisecond, in model scale)
TicksPerMs == 2
\* time.Hour in ticks (model scale)
Hour == 2
\* how many times the wall clock advances
MaxTicks == 1
\* how many ReportMetric calls are made on one Syncer
MaxCalls == 2
\* the backend's answers range over the first MaxBackendMs milliseconds
MaxBackendMs == 2
\* how many readings the device stores, and hands over in one batch
MaxBatch == 2
\* how many refresh cycles the collector carries out, and how many pairing
\* attempts it makes
MaxCycles == 2
\* how many passkey submissions the web endpoint serves
MaxRequests == 2
\* the length of Config.PrometheusEndpoint
MaxEndpoint == 5
\* how many labels Config.Labels holds
MaxLabels == 2
\* how many nested calls of a function the stack of a goroutine holds (the
\* runtime's maximum stack size, in model scale)
MaxStack == 3

\* ticks in one second (model scale: two milliseconds)
TicksPerSec == TicksPerMs + TicksPerMs
\* time.Time{}
ZeroTime == 0
\* the Unix epoch (model scale: one tick after the zero instant, so that the
\* instants with a negative Unix time are the zero instant and those before it)
Epoch == ZeroTime + 1
NowInit == Epoch + 1
MaxNow == NowInit + MaxTicks
MaxTime == MaxNow + Hour + 1
Times == (ZeroTime - 1)..MaxTime

Metrics == {"co2_ppm", "battery_level_percent"}
Statuses == {"success", "skipped", "error"}
\* the values a call can carry
Values == {42, 43}

\* ------------------------------------------------------- Go arithmetic
\* Go's integer division truncates toward zero
TruncDiv(a, b) == IF a >= 0 THEN a \div b ELSE -((-a) \div b)
\* Go's % takes the sign of the dividend
TruncRem(a, b) == a - b * TruncDiv(a, b)

\* ------------------------------------------------------- package time
IsZero(t) == t = ZeroTime
After(t, u) == t > u
\* time.Unix(sec, nsec)
Unix(sec, nsec) == Epoch + sec * TicksPerSec + nsec
\* t.UnixNano(), in ticks
UnixNano(t) == t - Epoch

\* ------------------------------------------------------- the backend
\* the timestamp() values the backend can answer, as Unix time in ticks:
\* the backend stores whole milliseconds
UnixVals == {ms * TicksPerMs : ms \in 0..MaxBackendMs}
\* the outcomes of api.Query: an error, a nil value, a non-vector value, or
\* a vector of zero, one or two series
QueryAnswers ==
    {[kind |-> k, vec |-> <<>>] : k \in {"error", "nil", "scalar"}}
    \cup {[kind |-> "vector", vec |-> <<>>]}
    \cup {[kind |-> "vector", vec |-> <<v>>] : v \in UnixVals}
    \cup {[kind |-> "vector", vec |-> <<v, v>>] : v \in {0}}
NoQuery == [kind |-> "none", vec |-> <<>>]

\* the instant of a sample the backend stores with Timestamp ms
SampleTime(ms) == Epoch + ms * TicksPerMs

\* ------------------------------------------------------- Syncer
\* one last-written time kept for all the metrics
Store_EveryEntry(lt, metric, t) ==
    [m \in DOMAIN lt \cup {metric} |-> t]

\* s.lastTimes[metric] = t
Store(lt, metric, t) ==
    [m \in DOMAIN lt \cup {metric} |-> IF m = metric THEN t ELSE lt[m]]

\* s.metricWrites.WithLabelValues(status).Inc()
Inc(mw, status) == [mw EXCEPT ![status] = @ + 1]

\* time.Unix(int64(ts), int64(ts*1000000000)%1000000000)
FromFloat(v) == Unix(TruncDiv(v, TicksPerSec), TruncRem(v, TicksPerSec))

\* lastTime taking an empty vector for an error
lastTime_EmptyIsError(lt, metric, q) ==
    IF metric \in DOMAIN lt
    THEN [last |-> lt[metric], err |-> FALSE, lastTimes |-> lt, queried |-> FALSE]
    ELSE IF q.kind # "vector" \/ Len(q.vec) # 1
    THEN [last |-> ZeroTime, err |-> TRUE, lastTimes |-> lt, queried |-> TRUE]
    ELSE [last |-> FromFloat(q.vec[1]), err |-> FALSE,
          lastTimes |-> Store(lt, metric, FromFloat(q.vec[1])), queried |-> TRUE]

\* lastTime taking the first of several series
lastTime_FirstOfMany(lt, metric, q) ==
    IF metric \in DOMAIN lt
    THEN [last |-> lt[metric], err |-> FALSE, lastTimes |-> lt, queried |-> FALSE]
    ELSE IF q.kind # "vector"
    THEN [last |-> ZeroTime, err |-> TRUE, lastTimes |-> lt, queried |-> TRUE]
    ELSE IF Len(q.vec) = 0
    THEN [last |-> ZeroTime, err |-> FALSE, lastTimes |-> lt, queried |-> TRUE]
    ELSE [last |-> FromFloat(q.vec[1]), err |-> FALSE,
          lastTimes |-> Store(lt, metric, FromFloat(q.vec[1])), queried |-> TRUE]

\* lastTime querying the backend whatever the cache holds
lastTime_AlwaysQueries(lt, metric, q) ==
    IF q.kind # "vector" \/ Len(q.vec) > 1
    THEN [last |-> ZeroTime, err |-> TRUE, lastTimes |-> lt, queried |-> TRUE]
    ELSE IF Len(q.vec) = 0
    THEN [last |-> ZeroTime, err |-> FALSE, lastTimes |-> lt, queried |-> TRUE]
    ELSE [last |-> FromFloat(q.vec[1]), err |-> FALSE,
          lastTimes |-> Store(lt, metric, FromFloat(q.vec[1])), queried |-> TRUE]

\* Syncer.lastTime: the cached entry, or the backend's answer
lastTime(lt, metric, q) ==
    IF metric \in DOMAIN lt
    THEN [last |-> lt[metric], err |-> FALSE, lastTimes |-> lt, queried |-> FALSE]
    ELSE IF q.kind = "error"
    THEN [last |-> ZeroTime, err |-> TRUE, lastTimes |-> lt, queried |-> TRUE]
    ELSE IF q.kind = "nil"
    THEN [last |-> ZeroTime, err |-> TRUE, lastTimes |-> lt, queried |-> TRUE]
    ELSE IF q.kind # "vector"
    THEN [last |-> ZeroTime, err |-> TRUE, lastTimes |-> lt, queried |-> TRUE]
    ELSE IF Len(q.vec) = 0
    THEN [last |-> ZeroTime, err |-> FALSE, lastTimes |-> lt, queried |-> TRUE]
    ELSE IF Len(q.vec) > 1
    THEN [last |-> ZeroTime, err |-> TRUE, lastTimes |-> lt, queried |-> TRUE]
    ELSE [last |-> FromFloat(q.vec[1]), err |-> FALSE,
          lastTimes |-> Store(lt, metric, FromFloat(q.vec[1])), queried |-> TRUE]

\* the bound of one hour taken as exclusive
TooFarFuture_AtHour(ts, tnow) == ts >= tnow + Hour

\* ts.After(now.Add(time.Hour))
TooFarFuture(ts, tnow) == After(ts, tnow + Hour)

\* a sample at the last-known time taken for new
NotAfterLast_Before(ts, last) == ts < last

\* every sample taken for new
NotAfterLast_Never(ts, last) == FALSE

\* !ts.After(last)
NotAfterLast(ts, last) == ~After(ts, last)

\* Timestamp: ts.UnixNano() / int64(time.Millisecond)
UnixMilli(ts) == TruncDiv(UnixNano(ts), TicksPerMs)

\* the sample of the prompb.WriteRequest
WriteRequest(ts, value) == [ms |-> UnixMilli(ts), value |-> value]
NoRequest == [ms |-> 0, value |-> 0]

\* WriteSample forgetting to advance the cache after an accepted write
WriteSample_NoAdvance(dry, lt, mw, name, ts, value, wok, queried) ==
    IF dry
    THEN [lastTimes |-> Store(lt, name, ts),
          metricWrites |-> Inc(Inc(mw, "skipped"), "success"),
          err |-> FALSE, branch |-> "ok", queried |-> queried,
          sent |-> 0, accepted |-> FALSE, req |-> WriteRequest(ts, value)]
    ELSE IF ~wok
    THEN [lastTimes |-> lt, metricWrites |-> Inc(mw, "error"),
          err |-> TRUE, branch |-> "writefail", queried |-> queried,
          sent |-> 1, accepted |-> FALSE, req |-> WriteRequest(ts, value)]
    ELSE [lastTimes |-> lt, metricWrites |-> Inc(mw, "success"),
          err |-> FALSE, branch |-> "ok", queried |-> queried,
          sent |-> 1, accepted |-> TRUE, req |-> WriteRequest(ts, value)]

\* WriteSample returning from the dry-run branch before the cache is advanced
WriteSample_DryReturns(dry, lt, mw, name, ts, value, wok, queried) ==
    IF dry
    THEN [lastTimes |-> lt,
          metricWrites |-> Inc(mw, "skipped"),
          err |-> FALSE, branch |-> "ok", queried |-> queried,
          sent |-> 0, accepted |-> FALSE, req |-> WriteRequest(ts, value)]
    ELSE IF ~wok
    THEN [lastTimes |-> lt, metricWrites |-> Inc(mw, "error"),
          err |-> TRUE, branch |-> "writefail", queried |-> queried,
          sent |-> 1, accepted |-> FALSE, req |-> WriteRequest(ts, value)]
    ELSE [lastTimes |-> Store(lt, name, ts), metricWrites |-> Inc(mw, "success"),
          err |-> FALSE, branch |-> "ok", queried |-> queried,
          sent |-> 1, accepted |-> TRUE, req |-> WriteRequest(ts, value)]

\* WriteSample advancing the cache before the write is sent
WriteSample_AdvanceFirst(dry, lt, mw, name, ts, value, wok, queried) ==
    IF dry
    THEN [lastTimes |-> Store(lt, name, ts),
          metricWrites |-> Inc(Inc(mw, "skipped"), "success"),
          err |-> FALSE, branch |-> "ok", queried |-> queried,
          sent |-> 0, accepted |-> FALSE, req |-> WriteRequest(ts, value)]
    ELSE IF ~wok
    THEN [lastTimes |-> Store(lt, name, ts), metricWrites |-> Inc(mw, "error"),
          err |-> TRUE, branch |-> "writefail", queried |-> queried,
          sent |-> 1, accepted |-> FALSE, req |-> WriteRequest(ts, value)]
    ELSE [lastTimes |-> Store(lt, name, ts), metricWrites |-> Inc(mw, "success"),
          err |-> FALSE, branch |-> "ok", queried |-> queried,
          sent |-> 1, accepted |-> TRUE, req |-> WriteRequest(ts, value)]

\* ReportMetric from the write request on: the request is built, sent unless
\* DryRun, and the cache advanced unless the write failed
WriteSample(dry, lt, mw, name, ts, value, wok, queried) ==
    IF dry
    THEN [lastTimes |-> Store(lt, name, ts),
          metricWrites |-> Inc(Inc(mw, "skipped"), "success"),
          err |-> FALSE, branch |-> "ok", queried |-> queried,
          sent |-> 0, accepted |-> FALSE, req |-> WriteRequest(ts, value)]
    ELSE IF ~wok
    THEN [lastTimes |-> lt, metricWrites |-> Inc(mw, "error"),
          err |-> TRUE, branch |-> "writefail", queried |-> queried,
          sent |-> 1, accepted |-> FALSE, req |-> WriteRequest(ts, value)]
    ELSE [lastTimes |-> Store(lt, name, ts), metricWrites |-> Inc(mw, "success"),
          err |-> FALSE, branch |-> "ok", queried |-> queried,
          sent |-> 1, accepted |-> TRUE, req |-> WriteRequest(ts, value)]

\* ReportMetric advancing the cache to the timestamp of a sample it skips
ReportMetric_SkipAdvances(dry, lt, mw, name, ts, value, tnow, q, wok) ==
    IF IsZero(ts)
    THEN [lastTimes |-> lt, metricWrites |-> Inc(mw, "error"),
          err |-> TRUE, branch |-> "zero", queried |-> FALSE,
          sent |-> 0, accepted |-> FALSE, req |-> NoRequest]
    ELSE IF TooFarFuture(ts, tnow)
    THEN [lastTimes |-> lt, metricWrites |-> Inc(mw, "error"),
          err |-> TRUE, branch |-> "future", queried |-> FALSE,
          sent |-> 0, accepted |-> FALSE, req |-> NoRequest]
    ELSE LET l == lastTime(lt, name, q) IN
         IF l.err
         THEN [lastTimes |-> l.lastTimes, metricWrites |-> Inc(mw, "error"),
               err |-> TRUE, branch |-> "lasttime", queried |-> l.queried,
               sent |-> 0, accepted |-> FALSE, req |-> NoRequest]
         ELSE IF NotAfterLast(ts, l.last)
         THEN [lastTimes |-> Store(l.lastTimes, name, ts),
               metricWrites |-> Inc(mw, "skipped"),
               err |-> FALSE, branch |-> "skipped", queried |-> l.queried,
               sent |-> 0, accepted |-> FALSE, req |-> NoRequest]
         ELSE WriteSample(dry, l.lastTimes, mw, name, ts, value, wok, l.queried)

\* Syncer.ReportMetric(ctx, name, ts, value) at wall-clock time tnow, with q
\* the backend's answer to a query and wok whether the backend accepts a write
ReportMetric(dry, lt, mw, name, ts, value, tnow, q, wok) ==
    IF IsZero(ts)
    THEN [lastTimes |-> lt, metricWrites |-> Inc(mw, "error"),
          err |-> TRUE, branch |-> "zero", queried |-> FALSE,
          sent |-> 0, accepted |-> FALSE, req |-> NoRequest]
    ELSE IF TooFarFuture(ts, tnow)
    THEN [lastTimes |-> lt, metricWrites |-> Inc(mw, "error"),
          err |-> TRUE, branch |-> "future", queried |-> FALSE,
          sent |-> 0, accepted |-> FALSE, req |-> NoRequest]
    ELSE LET l == lastTime(lt, name, q) IN
         IF l.err
         THEN [lastTimes |-> l.lastTimes, metricWrites |-> Inc(mw, "error"),
               err |-> TRUE, branch |-> "lasttime", queried |-> l.queried,
               sent |-> 0, accepted |-> FALSE, req |-> NoRequest]
         ELSE IF NotAfterLast(ts, l.last)
         THEN [lastTimes |-> l.lastTimes, metricWrites |-> Inc(mw, "skipped"),
               err |-> FALSE, branch |-> "skipped", queried |-> l.queried,
               sent |-> 0, accepted |-> FALSE, req |-> NoRequest]
         ELSE WriteSample(dry, l.lastTimes, mw, name, ts, value, wok, l.queried)

\* ------------------------------------------------------- package net/url
\* URLs are sequences of characters: a letter, a digit, the colon and the
\* slash
Letters == {"h"}
Digits == {"9"}
UrlChars == Letters \cup Digits \cup {":", "/"}
Endpoints == UNION {[1..n -> UrlChars] : n \in 0..MaxEndpoint}

\* strings.HasPrefix(s, prefix)
HasPrefix(s, prefix) == Len(s) >= Len(prefix) /\ SubSeq(s, 1, Len(prefix)) = prefix
\* strings.Index(s, c), counted from 1; 0 when c is not in s
Index(s, c) ==
    IF \E i \in DOMAIN s : s[i] = c
    THEN CHOOSE i \in DOMAIN s : s[i] = c /\ \A j \in 1..(i - 1) : s[j] # c
    ELSE 0
\* strings.LastIndex(s, c), counted from 1; 0 when c is not in s
LastIndex(s, c) ==
    IF \E i \in DOMAIN s : s[i] = c
    THEN CHOOSE i \in DOMAIN s : s[i] = c /\ \A j \in (i + 1)..Len(s) : s[j] # c
    ELSE 0
\* s[i:] for a Go index i, that is from the character after the first i
From(s, i) == SubSeq(s, i + 1, Len(s))

NoURL == [err |-> TRUE, Scheme |-> <<>>, Opaque |-> <<>>, Host |-> <<>>, Path |-> <<>>]

\* getScheme, from the i-th character on: the letters, digits after the
\* first character included, up to the first colon
RECURSIVE getSchemeFrom(_, _)
getSchemeFrom(rawURL, i) ==
    IF i > Len(rawURL)
    THEN [err |-> FALSE, scheme |-> <<>>, rest |-> rawURL]
    ELSE IF rawURL[i] \in Letters
    THEN getSchemeFrom(rawURL, i + 1)
    ELSE IF rawURL[i] \in Digits
    THEN IF i = 1
         THEN [err |-> FALSE, scheme |-> <<>>, rest |-> rawURL]
         ELSE getSchemeFrom(rawURL, i + 1)
    ELSE IF rawURL[i] = ":"
    THEN IF i = 1
         THEN [err |-> TRUE, scheme |-> <<>>, rest |-> <<>>]
         ELSE [err |-> FALSE, scheme |-> SubSeq(rawURL, 1, i - 1), rest |-> From(rawURL, i)]
    ELSE [err |-> FALSE, scheme |-> <<>>, rest |-> rawURL]

getScheme(rawURL) == getSchemeFrom(rawURL, 1)

\* validOptionalPort: nothing, or a colon and digits
validOptionalPort(port) ==
    port = <<>> \/ (port[1] = ":" /\ \A i \in 2..Len(port) : port[i] \in Digits)

\* parseHost: what follows the last colon has to be a port
parseHost(host) ==
    IF LastIndex(host, ":") # 0 /\ ~validOptionalPort(From(host, LastIndex(host, ":") - 1))
    THEN [err |-> TRUE, host |-> <<>>]
    ELSE [err |-> FALSE, host |-> host]

\* url.Parse(rawURL)
Parse(rawURL) ==
    LET g == getScheme(rawURL) IN
    IF g.err THEN NoURL
    ELSE IF ~HasPrefix(g.rest, <<"/">>) /\ g.scheme # <<>>
    THEN [err |-> FALSE, Scheme |-> g.scheme, Opaque |-> g.rest, Host |-> <<>>, Path |-> <<>>]
    ELSE IF /\ ~HasPrefix(g.rest, <<"/">>)
            /\ LET cut == Index(g.rest, "/")
                   segment == IF cut = 0 THEN g.rest ELSE SubSeq(g.rest, 1, cut - 1)
               IN Index(segment, ":") # 0
    THEN NoURL
    ELSE IF /\ g.scheme # <<>> \/ ~HasPrefix(g.rest, <<"/", "/", "/">>)
            /\ HasPrefix(g.rest, <<"/", "/">>)
    THEN LET after == From(g.rest, 2)
             cut == Index(after, "/")
             authority == IF cut = 0 THEN after ELSE SubSeq(after, 1, cut - 1)
             path == IF cut = 0 THEN <<>> ELSE From(after, cut - 1)
             h == parseHost(authority)
         IN IF h.err THEN NoURL
            ELSE [err |-> FALSE, Scheme |-> g.scheme, Opaque |-> <<>>, Host |-> h.host,
                  Path |-> path]
    ELSE [err |-> FALSE, Scheme |-> g.scheme, Opaque |-> <<>>, Host |-> <<>>, Path |-> g.rest]

\* url.String() of a URL with a host: the scheme and a colon when there is a
\* scheme, "//", the host and the path
String(url) ==
    (IF url.Scheme # <<>> THEN url.Scheme \o <<":">> ELSE <<>>)
        \o <<"/", "/">> \o url.Host \o url.Path

\* ------------------------------------------------------- promsync.New
NoSyncer == [lastTimes |-> <<>>, made |-> FALSE]
NotCalled == [fn |-> "none", err |-> FALSE, msg |-> "", syncer |-> NoSyncer, ll |-> <<>>]
Failure(msg) == [fn |-> "New", err |-> TRUE, msg |-> msg, syncer |-> NoSyncer, ll |-> <<>>]

\* New accepting an endpoint with no scheme
New_NoSchemeCheck(cfg) ==
    IF cfg.PrometheusEndpoint = <<>>
    THEN Failure("PrometheusEndpoint is required")
    ELSE LET url == Parse(cfg.PrometheusEndpoint) IN
         IF url.err THEN Failure("failed to parse URL")
         ELSE IF url.Host = <<>> THEN Failure("has no host")
         ELSE IF Parse(String(url)).err THEN Failure("failed to create Prometheus client")
         ELSE [fn |-> "New", err |-> FALSE, msg |-> "",
               syncer |-> [lastTimes |-> <<>>, made |-> TRUE], ll |-> <<>>]

\* New(config): the checks of the endpoint, api.NewClient, which parses the
\* address again, and the Syncer with an empty lastTimes
New(cfg) ==
    IF cfg.PrometheusEndpoint = <<>>
    THEN Failure("PrometheusEndpoint is required")
    ELSE LET url == Parse(cfg.PrometheusEndpoint) IN
         IF url.err THEN Failure("failed to parse URL")
         ELSE IF url.Host = <<>> THEN Failure("has no host")
         ELSE IF url.Scheme = <<>> THEN Failure("has no scheme")
         ELSE IF Parse(String(url)).err THEN Failure("failed to create Prometheus client")
         ELSE [fn |-> "New", err |-> FALSE, msg |-> "",
               syncer |-> [lastTimes |-> <<>>, made |-> TRUE], ll |-> <<>>]

\* ------------------------------------------------------- Syncer.labelSet
\* the label names, in ascending order of strings.Compare (bytes: "J" < "_"
\* < "d" < "i" < "j")
LabelNames == <<"Job", "__name__", "device_addr", "instance", "job">>
NameLabel == "__name__"
LabelKeys == {LabelNames[i] : i \in DOMAIN LabelNames}
LabelValues == {<<"v">>}
\* the metric names and prefixes, as sequences of characters
MetricNames == {<<"m">>, <<"n">>}
Prefixes == {<<>>, <<"p">>}

\* Config.Labels: the maps of at most MaxLabels labels
LabelMaps ==
    UNION {[K -> LabelValues] : K \in {L \in SUBSET LabelKeys : Cardinality(L) <= MaxLabels}}

\* strings.Compare(a, b) on label names
StringsCompare(a, b) ==
    LET pos(n) == CHOOSE i \in DOMAIN LabelNames : LabelNames[i] = n
    IN IF pos(a) < pos(b) THEN 0 - 1 ELSE IF pos(a) > pos(b) THEN 1 ELSE 0

\* the orders in which a range loop goes over the keys of map m
RangeOrders(m) ==
    LET n == Cardinality(DOMAIN m)
    IN {ks \in [1..n -> DOMAIN m] : \A i, j \in 1..n : i # j => ks[i] # ks[j]}

\* slices.SortFunc(ll, ...) by Name: the sort is not guaranteed to be stable
SortLabels(ll) ==
    {[i \in 1..Len(ll) |-> ll[p[i]]] :
        p \in {q \in [1..Len(ll) -> 1..Len(ll)] :
                 /\ \A i, j \in 1..Len(ll) : i # j => q[i] # q[j]
                 /\ \A i \in 1..(Len(ll) - 1) :
                        StringsCompare(ll[q[i]].Name, ll[q[i + 1]].Name) <= 0}}

\* the labels left in the order of the range loop
labelSet_Unsorted(cfg, metricName) ==
    {<<[Name |-> NameLabel, Value |-> cfg.MetricPrefix \o metricName]>>
        \o [i \in 1..Len(ks) |-> [Name |-> ks[i], Value |-> cfg.Labels[ks[i]]]] :
     ks \in RangeOrders(cfg.Labels)}

\* s.labelSet(metricName): the results it can return, for every order of
\* the range loop over config.Labels and every outcome of the sort
labelSet(cfg, metricName) ==
    UNION {SortLabels(<<[Name |-> NameLabel, Value |-> cfg.MetricPrefix \o metricName]>>
                        \o [i \in 1..Len(ks) |-> [Name |-> ks[i], Value |-> cfg.Labels[ks[i]]]]) :
           ks \in RangeOrders(cfg.Labels)}

\* ------------------------------------------------------- state
VARIABLES
    now,            \* time.Now()
    dryRun,         \* config.DryRun
    lastTimes,      \* Syncer.lastTimes
    metricWrites,   \* Syncer.metricWrites, by status
    backend,        \* per metric, the Timestamps of the samples the backend accepted, in order
    call,           \* the ReportMetric call that is returning: its inputs and what it did
    last,           \* the call before it, when it failed or belongs to an increasing
                    \* sequence: its metric, timestamp and how it ended
    ncalls,         \* ReportMetric calls made so far
    incr,           \* whether the calls so far are one increasing sequence
    twin            \* a dry-run Syncer fed the same calls (SpecPair)

\* the collector (SpecRefresh)
VARIABLES
    pc,             \* where the main goroutine is: "refresh" (about to call c.refresh),
                    \* "read", "battery", "loop" (inside c.refresh), "run" (top of the
                    \* loop of c.run) or "exit" (os.Exit(1))
    cycles,         \* refresh cycles started so far
    inflight,       \* refresh cycles in progress
    lastSuccess,    \* collector.lastSuccess
    lastReported,   \* collector.lastReported
    latest,         \* refresh: the latest reading
    all,            \* refresh: the batch, after slices.SortFunc
    idx,            \* refresh: the position of the range loop in the batch
    metricIdx,      \* reportData: the metric it reports next
    lastReportedVar, \* refresh: its local variable lastReported
    reported,       \* the ReportMetric calls of the cycle, in order
    result,         \* how the last cycle ended: "none", "success", or its error
    attempts,       \* collector.attempts: observations by status
    slept,          \* how long c.run slept before the cycle
    device          \* the readings the device stores, in the order it took them

\* the web endpoint and the passkey mediator (SpecWeb)
VARIABLES
    passkeyChan,    \* collector.passkeyChan: 0 for nil, else the channel of a pairing attempt
    pairing,        \* the pairing attempt: where it is, its channel, the passkey it got
    npair,          \* pairing attempts so far; the attempts' channels are 1..npair
    winner,         \* per channel, the producer whose passkey was received: a request,
                    \* Terminal, or Nobody
    requests,       \* the passkey submissions: where handlePasskeyPost is and its response
    served          \* the last response of the status page or of handleRefreshPost

\* promsync.New and Syncer.labelSet (SpecNew, SpecLabels)
VARIABLES
    config,         \* promsync.Config: PrometheusEndpoint, MetricPrefix and Labels
    returned        \* what the last call of New or labelSet returned

\* the context of the refresh cycle
VARIABLES
    ctx,            \* refresh: ctx.Deadline(), the deadline and whether one is set
    stalled         \* the backend call of the cycle that gets no response: "no",
                    \* "query" (api.Query) or "write" (WriteProto)

\* the terminal (SpecTerminal)
VARIABLES
    tty             \* the passkey function reading the terminal: where it is, how
                    \* many calls of it are nested, what it read last and returned

syncerVars == <<now, dryRun, lastTimes, metricWrites, backend>>
configVars == <<config, returned>>
ctxVars == <<ctx, stalled>>
termVars == <<tty>>
webVars == <<passkeyChan, pairing, npair, winner, requests, served>>
callVars == <<call, last, ncalls, incr, twin>>
collectorVars == <<pc, cycles, inflight, lastSuccess, lastReported, latest, all, idx,
                   metricIdx, lastReportedVar, reported, result, attempts, slept, device>>

vars == <<syncerVars, callVars, collectorVars, webVars, configVars, ctxVars, termVars>>

NoCall == [name |-> "", ts |-> ZeroTime, value |-> 0, now |-> ZeroTime, err |-> FALSE,
           branch |-> "none", queried |-> FALSE, sent |-> 0, accepted |-> FALSE,
           q |-> NoQuery, wok |-> TRUE]

NoLast == [name |-> "", ts |-> ZeroTime, branch |-> "none", bad |-> FALSE]

NoTwin == [lastTimes |-> <<>>, err |-> FALSE, branch |-> "none", sent |-> 0]

\* the refresh statuses of collector.attempts
RefreshStatuses == {"success", "error"}

NoLatest == [Time |-> ZeroTime, Battery |-> 0]

\* the passkey function has not been called
NoPasskeyCall == [st |-> "idle", depth |-> 0, eof |-> FALSE, str |-> <<>>, p |-> 0]

\* 5*time.Minute, the budget of a refresh cycle, in ticks (model scale)
RefreshTimeout == 1

\* context.Background(): no deadline
Background == [ok |-> FALSE, deadline |-> ZeroTime]

\* a context that is never done
WithTimeout_Background(t0) == Background

\* context.WithTimeout(context.Background(), 5*time.Minute) at time t0
WithTimeout(t0) == [ok |-> TRUE, deadline |-> t0 + RefreshTimeout]

\* the collector before newCollector is called: no cycle has run, lastSuccess
\* and lastReported hold the zero instant
NewCollectorState ==
    /\ pc = "refresh"
    /\ cycles = 0
    /\ inflight = 0
    /\ lastSuccess = ZeroTime
    /\ lastReported = ZeroTime
    /\ latest = NoLatest
    /\ all = <<>>
    /\ idx = 0
    /\ metricIdx = 0
    /\ lastReportedVar = ZeroTime
    /\ reported = <<>>
    /\ result = "none"
    /\ attempts = [s \in RefreshStatuses |-> 0]
    /\ slept = 0
    /\ device = <<>>
    /\ ctx = Background
    /\ stalled = "no"
    /\ tty = NoPasskeyCall

\* the passkey submissions
Requests == 1..MaxRequests
\* the producers of a passkey: the submissions and the terminal; Nobody when
\* no passkey was received
Terminal == 0 - 1
Nobody == 0
\* a nil channel
NilChan == 0

NoResponse == [code |-> 0, body |-> ""]
IdleRequest == [st |-> "idle", str |-> <<>>, loaded |-> FALSE, passkey |-> 0,
                pkChan |-> NilChan, resp |-> NoResponse]
NoPairing == [st |-> "idle", ch |-> NilChan, passkey |-> 0, from |-> Nobody]
NothingServed == [kind |-> "none", WantPasskey |-> FALSE, LastReported |-> ZeroTime,
                  sent |-> FALSE, resp |-> NoResponse]

\* the web endpoint before a request, the mediator with no pairing attempt
NewWebState ==
    /\ passkeyChan = NilChan
    /\ pairing = NoPairing
    /\ npair = 0
    /\ winner = <<>>
    /\ requests = [h \in Requests |-> IdleRequest]
    /\ served = NothingServed

\* the configuration main hands to promsync.New: the default endpoint
\* (a scheme and a host), a prefix and the labels job, instance and
\* device_addr
MainConfig ==
    [PrometheusEndpoint |-> <<"h", ":", "/", "/", "h">>, MetricPrefix |-> <<"p">>,
     Labels |-> [k \in {"job", "instance", "device_addr"} |-> <<"v">>]]

\* promsync.New has returned the Syncer
Configured ==
    /\ config = MainConfig
    /\ returned = NotCalled

\* an empty cache and counters at zero, no call made, no collector yet
StartState ==
    /\ now = NowInit
    /\ dryRun \in BOOLEAN
    /\ lastTimes = <<>>
    /\ metricWrites = [s \in Statuses |-> 0]
    /\ backend = [m \in Metrics |-> <<>>]
    /\ call = NoCall
    /\ last = NoLast
    /\ ncalls = 0
    /\ incr = "start"
    /\ twin = NoTwin
    /\ NewCollectorState
    /\ NewWebState

\* promsync.New: an empty cache and counters at zero
Init == StartState /\ Configured

\* main calls promsync.New with the endpoint of the flag -prometheus-url
NewCall ==
    /\ returned = NotCalled
    /\ returned' = New(config)
    /\ lastTimes' = New(config).syncer.lastTimes
    /\ UNCHANGED <<now, dryRun, metricWrites, backend, config>>
    /\ UNCHANGED <<callVars, collectorVars, webVars, ctxVars, termVars>>

InitNew ==
    /\ StartState
    /\ config \in {[MainConfig EXCEPT !.PrometheusEndpoint = e] : e \in Endpoints}
    /\ returned = NotCalled

SpecNew == InitNew /\ [][NewCall]_vars

\* a call of s.labelSet
LabelSetCall ==
    /\ \E metricName \in MetricNames : \E ll \in labelSet(config, metricName) :
          returned' = [fn |-> "labelSet", err |-> FALSE, msg |-> "", syncer |-> NoSyncer,
                       ll |-> ll, metric |-> metricName]
    /\ UNCHANGED <<syncerVars, config>>
    /\ UNCHANGED <<callVars, collectorVars, webVars, ctxVars, termVars>>

\* a Syncer with any prefix and any labels
InitLabels ==
    /\ StartState
    /\ config \in {[MainConfig EXCEPT !.MetricPrefix = p, !.Labels = m] :
                      p \in Prefixes, m \in LabelMaps}
    /\ returned = NotCalled

SpecLabels == InitLabels /\ [][LabelSetCall]_vars

\* the wall clock advances between two calls
Tick ==
    /\ call = NoCall
    /\ now < MaxNow
    /\ now' = now + 1
    /\ UNCHANGED <<dryRun, lastTimes, metricWrites, backend, call, last, ncalls, incr, twin>>
    /\ UNCHANGED <<collectorVars, webVars, configVars, termVars, ctxVars>>

\* the record of a call
CallRecord(name, ts, value, r, q, wok) ==
    [name |-> name, ts |-> ts, value |-> value, now |-> now, err |-> r.err, branch |-> r.branch,
     queried |-> r.queried, sent |-> r.sent, accepted |-> r.accepted,
     q |-> IF r.queried THEN q ELSE NoQuery,
     wok |-> IF r.sent = 1 THEN wok ELSE TRUE]

\* a timestamp that passes the validation of ReportMetric at time tnow
Valid(ts, tnow) == ts # ZeroTime /\ ts <= tnow + Hour

\* the instant the backend's answer v (Unix time) denotes
BackendTime(v) == Epoch + v

\* the answer q to the query of a cold cache gives a last-known time before ts
FreshFor(q, ts) ==
    /\ q.kind = "vector"
    /\ \/ Len(q.vec) = 0 /\ ts > ZeroTime
       \/ Len(q.vec) = 1 /\ ts > BackendTime(q.vec[1])

\* whether the calls so far, this one included, are calls on one metric with
\* strictly increasing timestamps that pass validation and whose writes the
\* backend accepts: "fresh" when the first of them was also after the
\* metric's last-known time, "stale" when it was not or the query failed
IncrAfter(name, ts, c) ==
    IF ~Valid(ts, now) \/ ~c.wok THEN "off"
    ELSE IF incr = "start"
    THEN (IF FreshFor(c.q, ts) THEN "fresh" ELSE "stale")
    ELSE IF incr \in {"fresh", "stale"} /\ name = last.name /\ ts > last.ts
    THEN incr
    ELSE "off"

\* the backend answers a query only when one is made: api.Query is reached
\* only for a metric without an entry in the cache lt
AnswersFor(lt, name) == IF name \in DOMAIN lt THEN {NoQuery} ELSE QueryAnswers

\* the backend accepts or refuses a write only when one is sent: WriteProto is
\* not reached in dry-run mode
WriteOutcomes(dry) == IF dry THEN {TRUE} ELSE BOOLEAN

\* one ReportMetric call on the Syncer
ReportMetricCall ==
    /\ call = NoCall
    /\ ncalls < MaxCalls
    /\ \E name \in Metrics, ts \in Times, value \in Values :
       \E q \in AnswersFor(lastTimes, name), wok \in WriteOutcomes(dryRun) :
         LET r == ReportMetric(dryRun, lastTimes, metricWrites, name, ts, value, now, q, wok) IN
         /\ lastTimes' = r.lastTimes
         /\ metricWrites' = r.metricWrites
         /\ backend' = IF r.accepted
                       THEN [backend EXCEPT ![name] = Append(@, r.req.ms)]
                       ELSE backend
         /\ call' = CallRecord(name, ts, value, r, q, wok)
         /\ incr' = IncrAfter(name, ts, CallRecord(name, ts, value, r, q, wok))
    /\ ncalls' = ncalls + 1
    /\ UNCHANGED <<now, dryRun, last, twin>>
    /\ UNCHANGED <<collectorVars, webVars, configVars, termVars, ctxVars>>

\* an answer of the backend that lastTime turns into an error
BadAnswer(q) ==
    \/ q.kind \in {"error", "nil", "scalar"}
    \/ q.kind = "vector" /\ Len(q.vec) > 1

\* the call returns to its caller
Return ==
    /\ call # NoCall
    /\ ncalls < MaxCalls
    /\ last' = IF \/ call.branch = "writefail"
                   \/ (call.queried /\ BadAnswer(call.q))
                   \/ incr \in {"fresh", "stale"}
                THEN [name |-> call.name, ts |-> call.ts, branch |-> call.branch,
                      bad |-> call.queried /\ BadAnswer(call.q)]
                ELSE NoLast
    /\ call' = NoCall
    /\ UNCHANGED <<now, dryRun, lastTimes, metricWrites, backend, ncalls, incr, twin>>
    /\ UNCHANGED <<collectorVars, webVars, configVars, termVars, ctxVars>>

Next == Tick \/ ReportMetricCall \/ Return

Spec == Init /\ [][Next]_vars

\* ------------------------------------------------------- the pair
\* the same call made on a normal Syncer whose backend accepts every write
\* and on a dry-run Syncer, with the same answer to a query
PairReport ==
    /\ call = NoCall
    /\ ncalls < MaxCalls
    /\ \E name \in Metrics, ts \in Times, value \in Values :
       \E q \in AnswersFor(lastTimes, name) :
         LET r == ReportMetric(FALSE, lastTimes, metricWrites, name, ts, value, now, q, TRUE)
             d == ReportMetric(TRUE, twin.lastTimes, metricWrites, name, ts, value, now, q, TRUE)
         IN
         /\ lastTimes' = r.lastTimes
         /\ metricWrites' = r.metricWrites
         /\ backend' = IF r.accepted
                       THEN [backend EXCEPT ![name] = Append(@, r.req.ms)]
                       ELSE backend
         /\ call' = CallRecord(name, ts, value, r, q, TRUE)
         /\ incr' = IncrAfter(name, ts, CallRecord(name, ts, value, r, q, TRUE))
         /\ twin' = [lastTimes |-> d.lastTimes, err |-> d.err,
                     branch |-> d.branch, sent |-> twin.sent + d.sent]
    /\ ncalls' = ncalls + 1
    /\ UNCHANGED <<now, dryRun, last>>
    /\ UNCHANGED <<collectorVars, webVars, configVars, termVars, ctxVars>>

InitPair == Init /\ dryRun = FALSE

NextPair == Tick \/ PairReport \/ Return

SpecPair == InitPair /\ [][NextPair]_vars

\* ------------------------------------------------------- the collector
\* time.Second, in ticks (model scale)
Second == 1
\* *interval, whose default is time.Hour
interval == Hour

\* no wall-clock time of a run is later
MaxRefreshNow == MaxNow + MaxCycles * interval
\* a time more than one hour ahead of every wall-clock time of a run
FarTime == MaxRefreshNow + Hour + 1

\* the metrics reportData reports, in its order
DataMetrics == <<"co2_ppm", "humidity_percent", "pressure_hpa", "temperature_celsius">>
BatteryMetric == "battery_level_percent"
AllMetrics == {BatteryMetric} \cup {DataMetrics[i] : i \in 1..Len(DataMetrics)}

\* aranet4.Data: the readings the device can take: sound ones at two times,
\* and one with each defect: a zero time, a time far ahead, no CO2 value, no
\* pressure
Sound == [Time |-> NowInit, CO2 |-> 400, H |-> 50, P |-> 1000, T |-> 21]
Readings ==
    {Sound, [Sound EXCEPT !.Time = Epoch]}
    \cup {[Sound EXCEPT !.Time = ZeroTime], [Sound EXCEPT !.Time = FarTime],
          [Sound EXCEPT !.CO2 = 0], [Sound EXCEPT !.P = 0]}
\* the latest reading: its battery level is -1 when the device gave none
Latests ==
    {l \in [Time : {ZeroTime, NowInit}, Battery : {-1, 90}] :
        l.Battery > -1 \/ l.Time = NowInit}
\* the readings the device takes between two cycles, with room for n
Extensions(n) == UNION {[1..k -> Readings] : k \in 0..n}

\* a.Time.Compare(b.Time)
Compare(t, u) == IF t < u THEN -1 ELSE IF t > u THEN 1 ELSE 0

Perms(n) == {p \in [1..n -> 1..n] : \A i, j \in 1..n : i # j => p[i] # p[j]}

\* device.ReadAll(): the stored readings, in any order
ReadAll(h) == {[i \in 1..Len(h) |-> h[p[i]]] : p \in Perms(Len(h))}

\* the batch left as it was acquired
SortFunc_Unsorted(s) == {s}

\* the batch ordered from the newest reading to the oldest
SortFunc_Descending(s) ==
    {[i \in 1..Len(s) |-> s[p[i]]] :
        p \in {q \in Perms(Len(s)) :
                 \A i \in 1..(Len(s) - 1) : Compare(s[q[i]].Time, s[q[i + 1]].Time) >= 0}}

\* slices.SortFunc(all, ...): the orders of s by Time; the sort is not
\* guaranteed to be stable, so readings with equal times come in any order
SortFunc(s) ==
    {[i \in 1..Len(s) |-> s[p[i]]] :
        p \in {q \in Perms(Len(s)) :
                 \A i \in 1..(Len(s) - 1) : Compare(s[q[i]].Time, s[q[i + 1]].Time) <= 0}}

\* a reading with no CO2 value let through
Rejected_ZeroCO2(data) == IsZero(data.Time) \/ data.CO2 < 0 \/ data.P <= 0

\* the checks of the range loop of refresh: the reading is skipped
Rejected(data) == IsZero(data.Time) \/ data.CO2 <= 0 \/ data.P <= 0

\* the value reportData reports for the k-th metric
ValueOf(data, k) ==
    CASE k = 1 -> data.CO2
      [] k = 2 -> data.H
      [] k = 3 -> data.P
      [] k = 4 -> data.T

\* the largest Timestamp of a series
MaxOf(seq) == CHOOSE x \in {seq[i] : i \in DOMAIN seq} : \A i \in DOMAIN seq : seq[i] <= x

\* the backend's answer to timestamp(series): no series while it holds no
\* sample, else the time of the latest sample, in Unix time
Answer(b, name) ==
    IF b[name] = <<>>
    THEN [kind |-> "vector", vec |-> <<>>]
    ELSE [kind |-> "vector", vec |-> <<MaxOf(b[name]) * TicksPerMs>>]

\* what api.Query returns in a cycle: the query fails, or the backend answers
\* from the samples it holds
RefreshAnswers(b, lt, name) ==
    IF name \in DOMAIN lt THEN {NoQuery}
    ELSE {[kind |-> "error", vec |-> <<>>], Answer(b, name)}

\* the record of one ReportMetric call of a cycle: i is the position of the
\* reading in the batch, 0 for the latest reading
Entry(name, ts, r, i) ==
    [name |-> name, ts |-> ts, branch |-> r.branch, err |-> r.err, sent |-> r.sent, i |-> i]

\* the state of the Syncer after a ReportMetric call with result r
Apply(r, name) ==
    /\ lastTimes' = r.lastTimes
    /\ metricWrites' = r.metricWrites
    /\ backend' = IF r.accepted
                  THEN [backend EXCEPT ![name] = Append(@, r.req.ms)]
                  ELSE backend

\* the process exiting on the error of any cycle
EndRefresh_AlwaysFatal(status, first, store) ==
    /\ result' = status
    /\ lastSuccess' = IF store THEN now ELSE lastSuccess
    /\ attempts' = [attempts EXCEPT ![IF status = "success" THEN "success" ELSE "error"] = @ + 1]
    /\ inflight' = inflight - 1
    /\ ctx' = Background
    /\ pc' = IF status # "success" THEN "exit" ELSE "run"

\* the latency observed only for a cycle that fails
EndRefresh_ErrorsObserved(status, first, store) ==
    /\ result' = status
    /\ lastSuccess' = IF store THEN now ELSE lastSuccess
    /\ attempts' = IF status = "success" THEN attempts
                   ELSE [attempts EXCEPT !["error"] = @ + 1]
    /\ inflight' = inflight - 1
    /\ ctx' = Background
    /\ pc' = IF first /\ status # "success" THEN "exit" ELSE "run"

\* lastSuccess stored by every cycle
EndRefresh_StoreAlways(status, first, store) ==
    /\ result' = status
    /\ lastSuccess' = now
    /\ attempts' = [attempts EXCEPT ![IF status = "success" THEN "success" ELSE "error"] = @ + 1]
    /\ inflight' = inflight - 1
    /\ ctx' = Background
    /\ pc' = IF first /\ status # "success" THEN "exit" ELSE "run"

\* refresh returns with the given status: "success", or the error "reading
\* data", "reporting battery level", "reporting data" or "panic". On the way
\* that runs the whole batch it has stored lastSuccess. Its deferred function
\* observes the status, and the caller goes on: newCollector (the first
\* cycle) hands an error to main, which exits; c.run logs it
EndRefresh(status, first, store) ==
    /\ result' = status
    /\ lastSuccess' = IF store THEN now ELSE lastSuccess
    /\ attempts' = [attempts EXCEPT ![IF status = "success" THEN "success" ELSE "error"] = @ + 1]
    /\ inflight' = inflight - 1
    /\ ctx' = Background
    /\ pc' = IF first /\ status # "success" THEN "exit" ELSE "run"

\* newCollector (the first cycle) or c.run calls c.refresh
StartRefresh ==
    /\ pc = "refresh"
    /\ pc' = "read"
    /\ cycles' = cycles + 1
    /\ inflight' = inflight + 1
    /\ ctx' = WithTimeout(now)
    /\ UNCHANGED <<lastSuccess, lastReported, latest, all, idx, metricIdx, lastReportedVar,
                   reported, result, attempts, slept, device>>
    /\ UNCHANGED <<syncerVars, callVars, configVars, termVars, stalled, webVars>>

\* c.readData fails, panics, or hands over the latest reading and the batch:
\* the readings the device has stored, those taken since the last cycle
\* included; the batch is held as slices.SortFunc leaves it. The latest
\* reading is one of latests and the device has room for more readings
ReadDataOf(latests, room) ==
    /\ pc = "read"
    /\ cycles <= MaxCycles
    /\ pairing.st = "idle"
    /\ \/ \E status \in {"reading data", "panic"} :
            /\ EndRefresh(status, cycles = 1, FALSE)
            /\ UNCHANGED <<latest, all, device>>
       \/ \E l \in latests, ext \in Extensions(room) :
          \E input \in ReadAll(device \o ext) :
          \E sorted \in SortFunc(input) :
            /\ device' = device \o ext
            /\ latest' = l
            /\ all' = sorted
            /\ pc' = "battery"
            /\ UNCHANGED <<result, attempts, inflight, lastSuccess, ctx>>
    /\ UNCHANGED <<cycles, lastReported, idx, metricIdx, lastReportedVar, reported, slept>>
    /\ UNCHANGED <<syncerVars, callVars, configVars, termVars, stalled, webVars>>

ReadData == ReadDataOf(Latests, MaxBatch - Len(device))

\* refresh going on to the batch after a failed battery metric
AfterBattery_GoesOn(err) ==
    IF Len(all) = 0
    THEN /\ EndRefresh("success", cycles = 1, FALSE)
         /\ UNCHANGED <<idx, metricIdx, lastReportedVar>>
    ELSE /\ pc' = "loop"
         /\ idx' = 1
         /\ metricIdx' = 1
         /\ lastReportedVar' = ZeroTime
         /\ UNCHANGED <<result, attempts, inflight, lastSuccess, ctx>>

\* refresh after the battery metric
AfterBattery(err) ==
    IF err
    THEN /\ EndRefresh("reporting battery level", cycles = 1, FALSE)
         /\ UNCHANGED <<idx, metricIdx, lastReportedVar>>
    ELSE IF Len(all) = 0
    THEN /\ EndRefresh("success", cycles = 1, FALSE)
         /\ UNCHANGED <<idx, metricIdx, lastReportedVar>>
    ELSE /\ pc' = "loop"
         /\ idx' = 1
         /\ metricIdx' = 1
         /\ lastReportedVar' = ZeroTime
         /\ UNCHANGED <<result, attempts, inflight, lastSuccess, ctx>>

\* refresh reports the battery level of the latest reading, returns when the
\* batch is empty and else starts the range loop
Battery ==
    /\ pc = "battery"
    /\ stalled = "no"
    /\ IF latest.Battery > -1
       THEN \E q \in RefreshAnswers(backend, lastTimes, BatteryMetric), wok \in WriteOutcomes(dryRun) :
              LET r == ReportMetric(dryRun, lastTimes, metricWrites, BatteryMetric,
                                    latest.Time, latest.Battery, now, q, wok)
              IN /\ Apply(r, BatteryMetric)
                 /\ reported' = Append(reported, Entry(BatteryMetric, latest.Time, r, 0))
                 /\ AfterBattery(r.err)
       ELSE /\ UNCHANGED <<lastTimes, metricWrites, backend, reported>>
            /\ AfterBattery(FALSE)
    /\ UNCHANGED <<now, dryRun, cycles, lastReported, latest, all, slept, device>>
    /\ UNCHANGED <<callVars, configVars, termVars, stalled, webVars>>

\* the range loop skips a reading that fails a check
Reject ==
    /\ pc = "loop"
    /\ idx <= Len(all)
    /\ Rejected(all[idx])
    /\ idx' = idx + 1
    /\ UNCHANGED <<pc, cycles, inflight, lastSuccess, lastReported, latest, all, metricIdx,
                   lastReportedVar, reported, result, attempts, slept, device>>
    /\ UNCHANGED <<syncerVars, callVars, configVars, termVars, ctxVars, webVars>>

\* reportData: the next ReportMetric call for the reading of the range loop;
\* an error ends the cycle, and after the last metric the loop goes on
ReportData ==
    /\ pc = "loop"
    /\ stalled = "no"
    /\ idx <= Len(all)
    /\ ~Rejected(all[idx])
    /\ LET data == all[idx]
           name == DataMetrics[metricIdx]
       IN \E q \in RefreshAnswers(backend, lastTimes, name), wok \in WriteOutcomes(dryRun) :
            LET r == ReportMetric(dryRun, lastTimes, metricWrites, name,
                                  data.Time, ValueOf(data, metricIdx), now, q, wok)
            IN /\ Apply(r, name)
               /\ reported' = Append(reported, Entry(name, data.Time, r, idx))
               /\ IF r.err
                  THEN /\ EndRefresh("reporting data", cycles = 1, FALSE)
                       /\ UNCHANGED <<idx, metricIdx, lastReportedVar>>
                  ELSE /\ UNCHANGED <<pc, result, attempts, inflight, lastSuccess, ctx>>
                       /\ IF metricIdx = Len(DataMetrics)
                          THEN /\ lastReportedVar' = data.Time
                               /\ idx' = idx + 1
                               /\ metricIdx' = 1
                          ELSE /\ metricIdx' = metricIdx + 1
                               /\ UNCHANGED <<idx, lastReportedVar>>
    /\ UNCHANGED <<now, dryRun, cycles, lastReported, latest, all, slept, device>>
    /\ UNCHANGED <<callVars, configVars, termVars, stalled, webVars>>

\* the batch is done: refresh stores lastReported and lastSuccess and returns
Finish ==
    /\ pc = "loop"
    /\ idx > Len(all)
    /\ lastReported' = IF ~IsZero(lastReportedVar) THEN lastReportedVar ELSE lastReported
    /\ EndRefresh("success", cycles = 1, TRUE)
    /\ UNCHANGED <<cycles, latest, all, idx, metricIdx, lastReportedVar, reported, slept, device>>
    /\ UNCHANGED <<syncerVars, callVars, configVars, termVars, stalled, webVars>>

\* refresh is at a ReportMetric call: the battery level of the latest
\* reading, or the next metric of the reading of the range loop
CallDue ==
    \/ pc = "battery" /\ latest.Battery > -1
    \/ pc = "loop" /\ idx <= Len(all) /\ ~Rejected(all[idx])

\* that call: its arguments, the position of its reading in the batch, and the
\* error of refresh when it fails
DueCall ==
    IF pc = "battery"
    THEN [name |-> BatteryMetric, ts |-> latest.Time, value |-> latest.Battery,
          i |-> 0, status |-> "reporting battery level"]
    ELSE [name |-> DataMetrics[metricIdx], ts |-> all[idx].Time,
          value |-> ValueOf(all[idx], metricIdx),
          i |-> idx, status |-> "reporting data"]

\* what the ReportMetric call c does when the backend does not respond to its
\* query (kind "query": api.Query returns the error of ctx) or to its write
\* (kind "write": the query, if any, was answered and WriteProto returns the
\* error of ctx); empty when the call makes no such request
Unanswered(kind, c) ==
    {r \in {ReportMetric(dryRun, lastTimes, metricWrites, c.name, c.ts, c.value, now, q, FALSE) :
              q \in RefreshAnswers(backend, lastTimes, c.name)} :
        \/ kind = "query" /\ r.branch = "lasttime" /\ r.queried
        \/ kind = "write" /\ r.branch = "writefail"}

\* the backend does not respond to the query or to the write of the
\* ReportMetric call refresh is at: the call waits in api.Query or WriteProto
Stall ==
    /\ CallDue
    /\ stalled = "no"
    /\ \E kind \in {"query", "write"} :
          /\ Unanswered(kind, DueCall) # {}
          /\ stalled' = kind
    /\ UNCHANGED <<ctx, syncerVars, callVars, collectorVars, webVars, configVars, termVars>>

\* <-ctx.Done(): the deadline of ctx passes, the request returns the error of
\* ctx and ReportMetric and refresh return errors
Expire ==
    /\ stalled # "no"
    /\ ctx.ok
    /\ now' = IF now < ctx.deadline THEN ctx.deadline ELSE now
    /\ \E r \in Unanswered(stalled, DueCall) :
          /\ Apply(r, DueCall.name)
          /\ reported' = Append(reported, Entry(DueCall.name, DueCall.ts, r, DueCall.i))
    /\ EndRefresh(DueCall.status, cycles = 1, FALSE)
    /\ stalled' = "no"
    /\ UNCHANGED <<dryRun, cycles, lastReported, latest, all, idx, metricIdx,
                   lastReportedVar, slept, device>>
    /\ UNCHANGED <<callVars, configVars, termVars, webVars>>

\* a full interval waited for after every cycle
WaitFor_FullInterval(ls, tnow) == interval

\* time.Until(c.lastSuccess.Load().Add(*interval)): the zero instant lies more
\* than an interval before every wall-clock time
WaitFor(ls, tnow) == IF IsZero(ls) THEN 0 - 1 ELSE ls + interval - tnow

\* c.run sleeps until the interval is over, or for a second when it is
\* behind schedule, and calls c.refresh
Sleep ==
    /\ pc = "run"
    /\ LET waitFor == WaitFor(lastSuccess, now)
           d == IF waitFor > 0 THEN waitFor ELSE Second
       IN /\ now' = now + d
          /\ slept' = d
    /\ pc' = "refresh"
    /\ latest' = NoLatest
    /\ all' = <<>>
    /\ idx' = 0
    /\ metricIdx' = 0
    /\ lastReportedVar' = ZeroTime
    /\ reported' = <<>>
    /\ UNCHANGED <<cycles, inflight, lastSuccess, lastReported, result, attempts, device>>
    /\ UNCHANGED <<dryRun, lastTimes, metricWrites, backend>>
    /\ UNCHANGED <<callVars, configVars, termVars, ctxVars, webVars>>

\* main: promsync.New has accepted the configuration, the backend holds no
\* sample
InitRefresh ==
    /\ now = NowInit
    /\ dryRun \in BOOLEAN
    /\ lastTimes = <<>>
    /\ metricWrites = [s \in Statuses |-> 0]
    /\ backend = [m \in AllMetrics |-> <<>>]
    /\ call = NoCall
    /\ last = NoLast
    /\ ncalls = 0
    /\ incr = "start"
    /\ twin = NoTwin
    /\ NewCollectorState
    /\ NewWebState
    /\ Configured

NextRefresh == StartRefresh \/ ReadData \/ Battery \/ Reject \/ ReportData \/ Finish \/ Sleep

SpecRefresh == InitRefresh /\ [][NextRefresh]_vars

\* c.readData with a device that has taken one reading before the first cycle
ReadDataOne == ReadDataOf(Latests, IF device = <<>> THEN 1 ELSE 0)

\* the cycles of the collector with a backend that may leave a request
\* unanswered; the process keeps running and time keeps passing
NextStalled ==
    \/ StartRefresh \/ ReadDataOne \/ Battery \/ Reject \/ ReportData \/ Finish \/ Sleep
    \/ Stall \/ Expire

\* main without -dry-run: the Syncer sends its writes
InitStalled == InitRefresh /\ dryRun = FALSE

SpecStalled == InitStalled /\ [][NextStalled]_vars /\ WF_vars(NextStalled)

\* ------------------------------------------------------- the web endpoint
\* The handlers of ServeHTTP run concurrently with the cycles of the collector
\* and with each other. The collector's side of the two channels (c.run
\* taking a refresh trigger, the pairing attempt asking for a passkey) follows
\* the specification of the mediator: a pairing attempt makes a channel of its
\* own, stores it in passkeyChan, waits for one passkey and clears passkeyChan.

\* the characters of a form value: a digit and a letter
Chars == {"7", "a"}
DecimalDigits == {"7"}
DigitValue(c) == CASE c = "7" -> 7
\* r.FormValue("passkey"): no value, a word, two numbers, and a number followed
\* by a letter
FormValues == {<<>>, <<"a">>, <<"7">>, <<"7", "7">>, <<"7", "a">>}

\* the token the verb %d scans: the digits at the start of str
RECURSIVE ScanNumber(_)
ScanNumber(str) ==
    IF str = <<>> \/ Head(str) \notin DecimalDigits
    THEN <<>>
    ELSE <<Head(str)>> \o ScanNumber(Tail(str))

\* strconv.ParseInt(tok, 10, 64)
RECURSIVE ParseInt(_)
ParseInt(tok) ==
    IF tok = <<>>
    THEN 0
    ELSE ParseInt(SubSeq(tok, 1, Len(tok) - 1)) * 10 + DigitValue(tok[Len(tok)])

\* fmt.Sscanf(str, "%d", &passkey): an error when str starts with no digit;
\* what follows the digits is left unread
Sscanf(str) ==
    LET tok == ScanNumber(str)
    IN [err |-> tok = <<>>, passkey |-> ParseInt(tok)]

\* http.Error(w, body, http.StatusBadRequest)
BadRequest(body) == [code |-> 400, body |-> body]
\* http.Redirect(w, r, "/", http.StatusSeeOther)
SeeOther == [code |-> 303, body |-> "/"]
TimeoutError == [code |-> 500, body |-> "Internal Server Error: timeout sending passkey"]
\* the status page, rendered from index.html
Page == [code |-> 200, body |-> "index.html"]

\* the pairing attempt is ready to receive from channel ch
Receiving(ch) == pairing.st = "waiting" /\ pairing.ch = ch
\* c.run is ready to receive from refreshChan: it waits for the next cycle
Listening == pc = "run"

\* a submission accepted while no passkey is asked for
handlePasskeyPost_NoPendingCheck(h, passkeyStr) ==
    /\ requests[h].st = "idle"
    /\ \A g \in Requests : g < h => requests[g].st # "idle"
    /\ requests' = [requests EXCEPT ![h] =
         IF passkeyStr = <<>>
         THEN [@ EXCEPT !.st = "done", !.str = passkeyStr,
                        !.resp = BadRequest("Bad Request: passkey is required")]
         ELSE IF Sscanf(passkeyStr).err
         THEN [@ EXCEPT !.st = "done", !.str = passkeyStr,
                        !.resp = BadRequest("Bad Request: passkey must be a number")]
         ELSE IF passkeyChan # NilChan
         THEN [@ EXCEPT !.st = "select", !.str = passkeyStr, !.loaded = TRUE,
                        !.passkey = Sscanf(passkeyStr).passkey, !.pkChan = passkeyChan]
         ELSE [@ EXCEPT !.st = "done", !.str = passkeyStr, !.loaded = TRUE,
                        !.passkey = Sscanf(passkeyStr).passkey, !.resp = SeeOther]]
    /\ UNCHANGED <<passkeyChan, pairing, npair, winner, served>>
    /\ UNCHANGED <<syncerVars, callVars, configVars, termVars, ctxVars, collectorVars>>

\* handlePasskeyPost up to its select: the h-th submission arrives with the
\* form value passkeyStr; an empty value and one Sscanf fails on are turned
\* down, then passkeyChan is loaded and a nil channel is turned down
handlePasskeyPost(h, passkeyStr) ==
    /\ requests[h].st = "idle"
    /\ \A g \in Requests : g < h => requests[g].st # "idle"
    /\ requests' = [requests EXCEPT ![h] =
         IF passkeyStr = <<>>
         THEN [@ EXCEPT !.st = "done", !.str = passkeyStr,
                        !.resp = BadRequest("Bad Request: passkey is required")]
         ELSE IF Sscanf(passkeyStr).err
         THEN [@ EXCEPT !.st = "done", !.str = passkeyStr,
                        !.resp = BadRequest("Bad Request: passkey must be a number")]
         ELSE IF passkeyChan # NilChan
         THEN [@ EXCEPT !.st = "select", !.str = passkeyStr, !.loaded = TRUE,
                        !.passkey = Sscanf(passkeyStr).passkey, !.pkChan = passkeyChan]
         ELSE [@ EXCEPT !.st = "done", !.str = passkeyStr, !.loaded = TRUE,
                        !.passkey = Sscanf(passkeyStr).passkey,
                        !.resp = BadRequest("Bad Request: no passkey request pending")]]
    /\ UNCHANGED <<passkeyChan, pairing, npair, winner, served>>
    /\ UNCHANGED <<syncerVars, callVars, configVars, termVars, ctxVars, collectorVars>>

\* the send case of the select of handlePasskeyPost: the pairing attempt
\* receives the passkey from the channel the handler loaded
SendPasskey(h) ==
    /\ requests[h].st = "select"
    /\ Receiving(requests[h].pkChan)
    /\ pairing' = [pairing EXCEPT !.st = "got", !.passkey = requests[h].passkey, !.from = h]
    /\ winner' = [winner EXCEPT ![pairing.ch] = h]
    /\ requests' = [requests EXCEPT ![h].st = "done", ![h].pkChan = NilChan,
                                     ![h].resp = SeeOther]
    /\ UNCHANGED <<passkeyChan, npair, served>>
    /\ UNCHANGED <<syncerVars, callVars, configVars, termVars, ctxVars, collectorVars>>

\* the timeout answered like a delivery
SendTimeout_Redirect(h) ==
    /\ requests[h].st = "select"
    /\ requests' = [requests EXCEPT ![h].st = "done", ![h].pkChan = NilChan,
                                     ![h].resp = SeeOther]
    /\ UNCHANGED <<passkeyChan, pairing, npair, winner, served>>
    /\ UNCHANGED <<syncerVars, callVars, configVars, termVars, ctxVars, collectorVars>>

\* a select with no timeout case
SendTimeout_Never(h) ==
    /\ requests[h].st = "select"
    /\ FALSE
    /\ requests' = [requests EXCEPT ![h].st = "done", ![h].pkChan = NilChan,
                                     ![h].resp = TimeoutError]
    /\ UNCHANGED <<passkeyChan, pairing, npair, winner, served>>
    /\ UNCHANGED <<syncerVars, callVars, configVars, termVars, ctxVars, collectorVars>>

\* the timeout case of the select: nothing took the passkey in 5 seconds
SendTimeout(h) ==
    /\ requests[h].st = "select"
    /\ requests' = [requests EXCEPT ![h].st = "done", ![h].pkChan = NilChan,
                                     ![h].resp = TimeoutError]
    /\ UNCHANGED <<passkeyChan, pairing, npair, winner, served>>
    /\ UNCHANGED <<syncerVars, callVars, configVars, termVars, ctxVars, collectorVars>>

\* a status page that always asks for the passkey
StatusPage_AlwaysWant ==
    /\ served' = [kind |-> "status", WantPasskey |-> TRUE,
                  LastReported |-> lastReported, sent |-> FALSE, resp |-> Page]
    /\ UNCHANGED <<passkeyChan, pairing, npair, winner, requests>>
    /\ UNCHANGED <<syncerVars, callVars, configVars, termVars, ctxVars, collectorVars>>

\* the status page dropping the cache of the Syncer
StatusPage_DropsCache ==
    /\ served' = [kind |-> "status", WantPasskey |-> passkeyChan # NilChan,
                  LastReported |-> lastReported, sent |-> FALSE, resp |-> Page]
    /\ lastTimes' = <<>>
    /\ UNCHANGED <<now, dryRun, metricWrites, backend>>
    /\ UNCHANGED <<passkeyChan, pairing, npair, winner, requests>>
    /\ UNCHANGED <<callVars, configVars, termVars, ctxVars, collectorVars>>

\* ServeHTTP for a GET of "/": the status page
StatusPage ==
    /\ served' = [kind |-> "status", WantPasskey |-> passkeyChan # NilChan,
                  LastReported |-> lastReported, sent |-> FALSE, resp |-> Page]
    /\ UNCHANGED <<passkeyChan, pairing, npair, winner, requests>>
    /\ UNCHANGED <<syncerVars, callVars, configVars, termVars, ctxVars, collectorVars>>

\* the handler running a cycle of its own
handleRefreshPost_Refreshes ==
    /\ served' = [kind |-> "refresh", WantPasskey |-> FALSE, LastReported |-> ZeroTime,
                  sent |-> TRUE, resp |-> SeeOther]
    /\ cycles <= MaxCycles
    /\ cycles' = cycles + 1
    /\ inflight' = inflight + 1
    /\ UNCHANGED <<pc, slept, latest, all, idx, metricIdx, lastReportedVar, reported>>
    /\ UNCHANGED <<lastSuccess, lastReported, result, attempts, device>>
    /\ UNCHANGED <<passkeyChan, pairing, npair, winner, requests>>
    /\ UNCHANGED <<syncerVars, callVars, configVars, termVars, ctxVars>>

\* the trigger taken at once, whatever the collector is doing
handleRefreshPost_Restarts ==
    /\ served' = [kind |-> "refresh", WantPasskey |-> FALSE, LastReported |-> ZeroTime,
                  sent |-> TRUE, resp |-> SeeOther]
    /\ pc' = "refresh"
    /\ slept' = 0
    /\ latest' = NoLatest
    /\ all' = <<>>
    /\ idx' = 0
    /\ metricIdx' = 0
    /\ lastReportedVar' = ZeroTime
    /\ reported' = <<>>
    /\ UNCHANGED <<cycles, inflight, lastSuccess, lastReported, result, attempts, device>>
    /\ UNCHANGED <<passkeyChan, pairing, npair, winner, requests>>
    /\ UNCHANGED <<syncerVars, callVars, configVars, termVars, ctxVars>>

\* handleRefreshPost: the trigger is sent when c.run is ready to take it,
\* which then goes on to the next cycle at once, and is dropped otherwise;
\* the answer is the redirect
handleRefreshPost ==
    /\ served' = [kind |-> "refresh", WantPasskey |-> FALSE, LastReported |-> ZeroTime,
                  sent |-> Listening, resp |-> SeeOther]
    /\ IF Listening
       THEN /\ pc' = "refresh"
            /\ slept' = 0
            /\ latest' = NoLatest
            /\ all' = <<>>
            /\ idx' = 0
            /\ metricIdx' = 0
            /\ lastReportedVar' = ZeroTime
            /\ reported' = <<>>
       ELSE UNCHANGED <<pc, slept, latest, all, idx, metricIdx, lastReportedVar, reported>>
    /\ UNCHANGED <<cycles, inflight, lastSuccess, lastReported, result, attempts, device>>
    /\ UNCHANGED <<passkeyChan, pairing, npair, winner, requests>>
    /\ UNCHANGED <<syncerVars, callVars, configVars, termVars, ctxVars>>

\* the pairing attempt of c.readData asks for the passkey: it makes a
\* channel, stores it in passkeyChan and waits
RequestPasskey ==
    /\ pc = "read"
    /\ pairing.st = "idle"
    /\ npair < MaxCycles
    /\ npair' = npair + 1
    /\ passkeyChan' = npair + 1
    /\ pairing' = [st |-> "waiting", ch |-> npair + 1, passkey |-> 0, from |-> Nobody]
    /\ winner' = Append(winner, Nobody)
    /\ UNCHANGED <<requests, served>>
    /\ UNCHANGED <<syncerVars, callVars, configVars, termVars, ctxVars, collectorVars>>

\* the terminal hands over the passkey typed as str; malformed input is asked
\* for again
TerminalInput(str) ==
    /\ pairing.st = "waiting"
    /\ ~Sscanf(str).err
    /\ pairing' = [pairing EXCEPT !.st = "got", !.passkey = Sscanf(str).passkey,
                                  !.from = Terminal]
    /\ winner' = [winner EXCEPT ![pairing.ch] = Terminal]
    /\ UNCHANGED <<passkeyChan, npair, requests, served>>
    /\ UNCHANGED <<syncerVars, callVars, configVars, termVars, ctxVars, collectorVars>>

\* the pairing attempt gives up waiting
AbandonPasskey ==
    /\ pairing.st = "waiting"
    /\ pairing' = [pairing EXCEPT !.st = "abandoned"]
    /\ UNCHANGED <<passkeyChan, npair, winner, requests, served>>
    /\ UNCHANGED <<syncerVars, callVars, configVars, termVars, ctxVars, collectorVars>>

\* the pairing attempt is over: passkeyChan is cleared
PasskeyReturn ==
    /\ pairing.st \in {"got", "abandoned"}
    /\ passkeyChan' = NilChan
    /\ pairing' = NoPairing
    /\ UNCHANGED <<npair, winner, requests, served>>
    /\ UNCHANGED <<syncerVars, callVars, configVars, termVars, ctxVars, collectorVars>>

\* c.readData of a device with no stored reading and no battery level
ReadDataEmpty == ReadDataOf({l \in Latests : l.Battery < 0}, 0)

InitWeb == InitRefresh /\ dryRun = FALSE

\* newCollector has started the web server: it registers the handlers and
\* calls http.ListenAndServe once its call of c.refresh, the first cycle, has
\* returned without error
Serving == cycles > 1 \/ (cycles = 1 /\ pc \in {"run", "refresh"})

\* the collector and the web endpoint; the submissions carry a number
NextWeb ==
    \/ StartRefresh
    \/ ReadDataEmpty
    \/ Battery
    \/ Sleep
    \/ RequestPasskey
    \/ AbandonPasskey
    \/ PasskeyReturn
    \/ \E h \in Requests : handlePasskeyPost(h, <<"7">>)
    \/ \E h \in Requests : SendPasskey(h)
    \/ \E h \in Requests : SendTimeout(h)
    \/ StatusPage
    \/ handleRefreshPost

SpecWeb == InitWeb /\ [][NextWeb]_vars

\* the pairing attempts of the first c.readData and the web endpoint; the
\* submissions carry every form value
NextPasskey ==
    \/ StartRefresh
    \/ RequestPasskey
    \/ \E str \in FormValues : TerminalInput(str)
    \/ AbandonPasskey
    \/ PasskeyReturn
    \/ \E h \in Requests, str \in FormValues : handlePasskeyPost(h, str)
    \/ \E h \in Requests : SendPasskey(h)
    \/ \E h \in Requests : SendTimeout(h)
    \/ StatusPage

SpecPasskey == InitWeb /\ [][NextPasskey]_vars

\* the pairing attempts and the passkey submissions, with no status page
NextSubmit ==
    \/ StartRefresh
    \/ RequestPasskey
    \/ \E str \in FormValues : TerminalInput(str)
    \/ AbandonPasskey
    \/ PasskeyReturn
    \/ \E h \in Requests, str \in FormValues : handlePasskeyPost(h, str)
    \/ \E h \in Requests : SendPasskey(h)
    \/ \E h \in Requests : SendTimeout(h)

\* the select of handlePasskeyPost takes one of its cases
SpecSubmitFair ==
    /\ InitWeb
    /\ [][NextSubmit]_vars
    /\ \A h \in Requests : WF_vars(SendPasskey(h) \/ SendTimeout(h))

\* c.readData of a device with a battery level and no stored reading
ReadDataBattery == ReadDataOf({l \in Latests : l.Battery > 0 - 1}, 0)

\* the cycles of the collector, each with one ReportMetric call, and the
\* requests of the web endpoint while no pairing attempt is waiting
NextShared ==
    \/ StartRefresh
    \/ ReadDataBattery
    \/ Battery
    \/ Sleep
    \/ \E h \in Requests : handlePasskeyPost(h, <<"7">>)
    \/ StatusPage
    \/ handleRefreshPost

SpecShared == InitWeb /\ [][NextShared]_vars

\* ------------------------------------------------------- batches with ties
\* a reading taken at the time of Sound with another temperature, and the
\* batches of sound readings, some of them with equal times, and readings
\* without a CO2 value
Warm == [Sound EXCEPT !.T = 22]
TiedBatches ==
    UNION {[1..k -> {Sound, Warm, [Sound EXCEPT !.Time = Epoch], [Sound EXCEPT !.CO2 = 0]}] :
             k \in 0..MaxBatch}

\* c.readData of a device that gives no battery level and hands over, in
\* every cycle, the same batch in the order it stores it; the batch is held
\* as slices.SortFunc leaves it
ReadDataTied ==
    /\ pc = "read"
    /\ cycles <= MaxCycles
    /\ \E input \in (IF cycles = 1 THEN TiedBatches ELSE {device}) :
       \E sorted \in SortFunc(input) :
          /\ device' = input
          /\ all' = sorted
    /\ latest' = [Time |-> NowInit, Battery |-> 0 - 1]
    /\ pc' = "battery"
    /\ UNCHANGED <<result, attempts, inflight, lastSuccess, ctx>>
    /\ UNCHANGED <<cycles, lastReported, idx, metricIdx, lastReportedVar, reported, slept>>
    /\ UNCHANGED <<syncerVars, callVars, configVars, termVars, stalled, webVars>>

\* the cycles of the collector over such a batch
NextTied ==
    \/ StartRefresh \/ ReadDataTied \/ Battery \/ Reject \/ ReportData \/ Finish \/ Sleep

SpecTied == InitRefresh /\ [][NextTied]_vars

\* ------------------------------------------------------- the restart
\* one ReportMetric call on a Syncer whose backend answers the query of a
\* cold cache from the samples it holds
StoredReport ==
    /\ call = NoCall
    /\ ncalls < MaxCalls
    /\ \E name \in Metrics, ts \in Times, value \in Values :
       \E q \in (IF name \in DOMAIN lastTimes THEN {NoQuery} ELSE {Answer(backend, name)}) :
       \E wok \in WriteOutcomes(dryRun) :
         LET r == ReportMetric(dryRun, lastTimes, metricWrites, name, ts, value, now, q, wok) IN
         /\ lastTimes' = r.lastTimes
         /\ metricWrites' = r.metricWrites
         /\ backend' = IF r.accepted
                       THEN [backend EXCEPT ![name] = Append(@, r.req.ms)]
                       ELSE backend
         /\ call' = CallRecord(name, ts, value, r, q, wok)
    /\ ncalls' = ncalls + 1
    /\ UNCHANGED <<now, dryRun, last, incr, twin>>
    /\ UNCHANGED <<collectorVars, webVars, configVars, termVars, ctxVars>>

\* the call returns to its caller; last keeps the sample the backend accepted
\* last
StoredReturn ==
    /\ call # NoCall
    /\ last' = IF call.accepted
                THEN [name |-> call.name, ts |-> call.ts, branch |-> call.branch, bad |-> FALSE]
                ELSE last
    /\ call' = NoCall
    /\ UNCHANGED <<now, dryRun, lastTimes, metricWrites, backend, ncalls, incr, twin>>
    /\ UNCHANGED <<collectorVars, webVars, configVars, termVars, ctxVars>>

\* the process is started again: promsync.New makes a Syncer with an empty
\* cache and counters at zero; the backend keeps its samples
Restart ==
    /\ call = NoCall
    /\ lastTimes # <<>>
    /\ lastTimes' = <<>>
    /\ metricWrites' = [s \in Statuses |-> 0]
    /\ UNCHANGED <<now, dryRun, backend>>
    /\ UNCHANGED <<callVars, collectorVars, webVars, configVars, termVars, ctxVars>>

NextRestart == StoredReport \/ StoredReturn \/ Restart

SpecRestart == Init /\ [][NextRestart]_vars

\* ------------------------------------------------------- a batch tried again
\* c.readData of a device that has no readings at the first cycle, takes a
\* batch before the second and keeps it from then on; the device gives no
\* battery level, and one cycle more than MaxCycles is run
ReadDataKept ==
    /\ pc = "read"
    /\ cycles <= MaxCycles + 1
    /\ \E stored \in (IF cycles = 1 THEN {<<>>}
                      ELSE IF cycles = 2 THEN Extensions(MaxBatch)
                      ELSE {device}) :
       \E input \in ReadAll(stored) :
       \E sorted \in SortFunc(input) :
          /\ device' = stored
          /\ all' = sorted
    /\ latest' = [Time |-> NowInit, Battery |-> 0 - 1]
    /\ pc' = "battery"
    /\ UNCHANGED <<result, attempts, inflight, lastSuccess, ctx>>
    /\ UNCHANGED <<cycles, lastReported, idx, metricIdx, lastReportedVar, reported, slept>>
    /\ UNCHANGED <<syncerVars, callVars, configVars, termVars, stalled, webVars>>

\* the cycles of the collector over such a device
NextKept ==
    \/ StartRefresh \/ ReadDataKept \/ Battery \/ Reject \/ ReportData \/ Finish \/ Sleep

SpecKept == InitRefresh /\ [][NextKept]_vars

\* ------------------------------------------------------- the terminal
\* what a read of the terminal finds: a line, or the end of the input (no
\* terminal is attached, or it was closed)
TerminalReads ==
    {[eof |-> TRUE, str |-> <<>>]} \cup {[eof |-> FALSE, str |-> str] : str \in FormValues}

\* fmt.Scanf("%d", &p): the number of values it stored, its error and p
Scanf(read) ==
    IF read.eof \/ Sscanf(read.str).err
    THEN [n |-> 0, err |-> TRUE, p |-> 0]
    ELSE [n |-> 1, err |-> FALSE, p |-> Sscanf(read.str).passkey]

\* the pairing of c.readData, finding no bond for the device, calls PasskeyFn
PasskeyFn ==
    /\ pc = "read"
    /\ tty.st = "idle"
    /\ tty' = [NoPasskeyCall EXCEPT !.st = "reading", !.depth = 1]
    /\ UNCHANGED <<syncerVars, callVars, collectorVars, webVars, configVars, ctxVars>>

\* passkey: the innermost call prompts and reads; it returns the number read,
\* through every call around it, or reports the error and calls passkey
\* again, which needs another frame on the stack: when the stack is full the
\* runtime ends the process with a stack overflow
passkey ==
    /\ tty.st = "reading"
    /\ \E read \in TerminalReads :
          LET scan == Scanf(read) IN
          IF scan.err \/ scan.n # 1
          THEN IF tty.depth < MaxStack
               THEN tty' = [st |-> "reading", depth |-> tty.depth + 1,
                            eof |-> read.eof, str |-> read.str, p |-> 0]
               ELSE tty' = [st |-> "overflow", depth |-> tty.depth,
                            eof |-> read.eof, str |-> read.str, p |-> 0]
          ELSE tty' = [st |-> "returned", depth |-> 0,
                       eof |-> read.eof, str |-> read.str, p |-> scan.p]
    /\ UNCHANGED <<syncerVars, callVars, collectorVars, webVars, configVars, ctxVars>>

\* c.readData goes on once the pairing has got its passkey
ReadDataPaired == tty.st = "returned" /\ ReadDataEmpty

\* the first run of the collector with a terminal for the passkey
NextTerminal ==
    \/ StartRefresh \/ PasskeyFn \/ passkey \/ ReadDataPaired \/ Battery \/ Sleep

SpecTerminal == InitRefresh /\ [][NextTerminal]_vars

\* ------------------------------------------------------- claims
\* a ReportMetric call has been made
Called == call # NoCall

\* the last call found no cache entry and the backend answered zero series
ColdZeroSeries ==
    Called /\ call.queried /\ call.q = [kind |-> "vector", vec |-> <<>>]

\* C1: for every metric the timestamps of the samples the backend accepted
\* are strictly increasing: none is written twice, none after a later one.
C1_AcceptedStrictlyIncreasing ==
    \A m \in Metrics : \A i, j \in DOMAIN backend[m] :
        i < j => backend[m][i] < backend[m][j]

\* C2 as stated: on a cold cache with zero series, a call with any non-zero
\* timestamp not more than one hour ahead returns success, sends exactly one
\* write and leaves lastTimes[name] at the call's timestamp.
C2_ColdStartAnyNonZero ==
    (ColdZeroSeries /\ Valid(call.ts, call.now))
        => /\ call.branch = "ok"
           /\ call.sent = 1
           /\ call.name \in DOMAIN lastTimes
           /\ lastTimes[call.name] = call.ts

\* C2 amended: on a cold cache with zero series, a call with a timestamp after
\* the zero instant and not more than one hour ahead, whose write the backend
\* accepts, returns success and leaves lastTimes[name] at the call's
\* timestamp; it sends exactly one write in normal mode, none in dry-run mode.
C2_ColdStart ==
    (ColdZeroSeries /\ Valid(call.ts, call.now) /\ call.ts > ZeroTime /\ call.wok)
        => /\ call.branch = "ok"
           /\ ~call.err
           /\ call.sent = (IF dryRun THEN 0 ELSE 1)
           /\ call.name \in DOMAIN lastTimes
           /\ lastTimes[call.name] = call.ts

C2_Witness ==
    /\ ColdZeroSeries /\ call.ts > ZeroTime /\ ~dryRun
    /\ call.sent = 1 /\ call.accepted
    /\ lastTimes[call.name] = call.ts

\* C3 as stated: in a sequence of calls on one metric with strictly increasing
\* valid timestamps and a backend that accepts every write, every call returns
\* success and leaves lastTimes[name] at its timestamp.
C3_IncreasingAllSucceed ==
    (Called /\ incr \in {"fresh", "stale"})
        => /\ ~call.err
           /\ call.name \in DOMAIN lastTimes
           /\ lastTimes[call.name] = call.ts

\* C3 amended: the same, for a sequence whose first timestamp is after the
\* metric's last-known time (the backend answers the cold-cache query with
\* zero series, or with one series whose time is before that timestamp).
C3_Increasing ==
    (Called /\ incr = "fresh")
        => /\ ~call.err
           /\ call.branch = "ok"
           /\ call.name \in DOMAIN lastTimes
           /\ lastTimes[call.name] = call.ts

C3_Witness ==
    /\ incr = "fresh" /\ ncalls = MaxCalls /\ ~dryRun
    /\ Len(backend[call.name]) = MaxCalls
    /\ lastTimes[call.name] = call.ts

\* C4 as stated: a call whose timestamp is equal to or earlier than the cached
\* lastTimes[name] returns without error as skipped and sends no write.
C4_NotAfterCachedSkipped ==
    [][(/\ ncalls' = ncalls + 1
        /\ call'.name \in DOMAIN lastTimes
        /\ call'.ts <= lastTimes[call'.name])
          => /\ ~call'.err
             /\ call'.branch = "skipped"
             /\ call'.sent = 0]_vars

\* C4 amended: a call whose timestamp passes validation and is equal to or
\* earlier than the cached lastTimes[name] returns without error as skipped
\* and sends no write, for every value; one that fails validation returns an
\* error and sends no write either.
C4_Skipped ==
    [][(/\ ncalls' = ncalls + 1
        /\ call'.name \in DOMAIN lastTimes
        /\ call'.ts <= lastTimes[call'.name])
          => /\ call'.sent = 0
             /\ backend' = backend
             /\ lastTimes' = lastTimes
             /\ IF Valid(call'.ts, call'.now)
                THEN ~call'.err /\ call'.branch = "skipped"
                     /\ metricWrites' = [metricWrites EXCEPT !["skipped"] = @ + 1]
                ELSE call'.err]_vars

C4_Witness ==
    /\ Called /\ call.branch = "skipped" /\ ~call.queried
    /\ call.ts = lastTimes[call.name]
    /\ Len(backend[call.name]) = 1

\* C5: ReportMetric fails validation exactly when the timestamp is the zero
\* instant or strictly more than one hour after now; it then returns an error
\* before any query or write and leaves lastTimes unchanged.
C5_Validation ==
    [][(ncalls' = ncalls + 1)
          => /\ (call'.branch \in {"zero", "future"})
                  <=> (call'.ts = ZeroTime \/ call'.ts > call'.now + Hour)
             /\ (call'.ts = ZeroTime \/ call'.ts > call'.now + Hour)
                  => /\ call'.err
                     /\ ~call'.queried
                     /\ call'.sent = 0
                     /\ lastTimes' = lastTimes
                     /\ backend' = backend]_vars

C5_Witness ==
    /\ Called /\ call.branch = "future" /\ call.ts = call.now + Hour + 1
    /\ call.err /\ lastTimes # <<>>

\* C6: a dry-run Syncer and a normal Syncer whose backend accepts every write,
\* fed the same calls and the same query answers from the same cache, return
\* the same outcome and hold the same lastTimes after every call, and the
\* dry-run Syncer sends no write request.
C6_DryRunEquivalent ==
    /\ Called => (twin.err = call.err /\ twin.branch = call.branch)
    /\ twin.lastTimes = lastTimes
    /\ twin.sent = 0

C6_Witness ==
    /\ ncalls = MaxCalls /\ call.branch = "ok" /\ call.sent = 1
    /\ Len(backend[call.name]) = MaxCalls
    /\ twin.branch = "ok" /\ twin.sent = 0
    /\ twin.lastTimes[call.name] = call.ts

\* C7 as stated: when the backend write fails ReportMetric returns an error
\* and leaves lastTimes[name] absent or before the call's timestamp, and the
\* next call with the same metric and timestamp sends the write again.
C7_RetrySendsWrite ==
    [][/\ (ncalls' = ncalls + 1 /\ call'.sent = 1 /\ ~call'.wok)
            => /\ call'.err
               /\ call'.branch = "writefail"
               /\ backend' = backend
               /\ \/ call'.name \notin DOMAIN lastTimes'
                  \/ lastTimes'[call'.name] < call'.ts
       /\ (/\ ncalls' = ncalls + 1
           /\ last.branch = "writefail"
           /\ call'.name = last.name /\ call'.ts = last.ts)
            => /\ call'.sent = 1
               /\ call'.branch # "skipped"]_vars

\* the answer q to a cold-cache query keeps a call with timestamp ts from
\* writing: the query fails, or reports a series at or after ts
Withholds(q, ts) ==
    \/ BadAnswer(q)
    \/ q.kind = "vector" /\ Len(q.vec) = 1 /\ BackendTime(q.vec[1]) >= ts

\* C7 amended: when the backend write fails ReportMetric returns an error and
\* leaves lastTimes[name] absent or before the call's timestamp, so the next
\* call with the same metric and timestamp that passes validation is never
\* skipped on account of the cache: it sends the write again unless it has to
\* query the backend and that query fails or reports a series at or after
\* the timestamp.
C7_WriteFailure ==
    [][/\ (ncalls' = ncalls + 1 /\ call'.sent = 1 /\ ~call'.wok)
            => /\ call'.err
               /\ call'.branch = "writefail"
               /\ backend' = backend
               /\ \/ call'.name \notin DOMAIN lastTimes'
                  \/ lastTimes'[call'.name] < call'.ts
       /\ (/\ ncalls' = ncalls + 1
           /\ last.branch = "writefail"
           /\ call'.name = last.name /\ call'.ts = last.ts
           /\ Valid(call'.ts, call'.now))
            => \/ call'.sent = 1
               \/ call'.queried /\ Withholds(call'.q, call'.ts)]_vars

C7_Witness ==
    /\ Called /\ call.branch = "writefail" /\ call.err /\ call.queried
    /\ call.name \in DOMAIN lastTimes
    /\ lastTimes[call.name] < call.ts
    /\ backend[call.name] = <<>>

\* C8 as stated: when the cold-cache query fails, returns a non-vector result
\* or more than one series, ReportMetric returns an error, sends no write and
\* creates no lastTimes entry, and the next call for the metric queries again.
C8_NextCallQueries ==
    [][/\ (ncalls' = ncalls + 1 /\ call'.queried /\ BadAnswer(call'.q))
            => /\ call'.err
               /\ call'.sent = 0
               /\ backend' = backend
               /\ lastTimes' = lastTimes
               /\ call'.name \notin DOMAIN lastTimes'
       /\ (/\ ncalls' = ncalls + 1
           /\ last.bad
           /\ call'.name = last.name)
            => call'.queried]_vars

\* C8 amended: the same, where the next call for the metric that passes
\* validation queries again (one that fails validation returns before the
\* query).
C8_QueryFailure ==
    [][/\ (ncalls' = ncalls + 1 /\ call'.queried /\ BadAnswer(call'.q))
            => /\ call'.err
               /\ call'.sent = 0
               /\ backend' = backend
               /\ lastTimes' = lastTimes
               /\ call'.name \notin DOMAIN lastTimes'
       /\ (/\ ncalls' = ncalls + 1
           /\ last.bad
           /\ call'.name = last.name)
            => IF Valid(call'.ts, call'.now)
               THEN call'.queried
               ELSE ~call'.queried /\ call'.err]_vars

C8_Witness ==
    /\ ncalls = MaxCalls /\ call.queried /\ call.err
    /\ call.q.kind = "vector" /\ Len(call.q.vec) > 1
    /\ call.name \notin DOMAIN lastTimes
    /\ metricWrites["error"] = MaxCalls

\* C9: on a cold cache whose backend reports one series with last-written
\* time L, no sample with a timestamp equal to or earlier than L is written.
C9_NothingAtOrBeforeL ==
    (/\ Called /\ call.queried /\ call.accepted
     /\ call.q.kind = "vector" /\ Len(call.q.vec) = 1)
        => SampleTime(backend[call.name][Len(backend[call.name])])
               > BackendTime(call.q.vec[1])

\* the outcome of a call
Outcome(c) ==
    IF c.err THEN "error" ELSE IF c.branch = "skipped" THEN "skipped" ELSE "success"

\* C10: every call increments exactly one of the counters success, skipped,
\* error by one, the one that matches the call's outcome.
C10_OneCounterPerCall ==
    [][(ncalls' = ncalls + 1)
          => metricWrites' = [metricWrites EXCEPT ![Outcome(call')] = @ + 1]]_vars

\* ------------------------------------------------------- claims: the collector
\* the positions in the batch of the readings reportData was called for
ReportedReadings == {reported[j].i : j \in DOMAIN reported} \ {0}

\* a reading with a non-zero timestamp, CO2 > 0 and pressure > 0
Wanted(d) == d.Time # ZeroTime /\ d.CO2 > 0 /\ d.P > 0

\* the cycle is over and c.run has not yet gone to sleep
CycleOver == pc \in {"run", "exit"} /\ result # "none"

\* the ReportMetric call that returned an error and ended the cycle
Failed == reported[Len(reported)]

\* the positions in the batch the range loop has got to
Reached ==
    IF pc = "loop"
    THEN {i \in DOMAIN all : i < idx \/ (i = idx /\ metricIdx > 1)}
    ELSE IF CycleOver /\ result = "success" THEN DOMAIN all
    ELSE IF CycleOver /\ result = "reporting data" THEN 1..Failed.i
    ELSE {}

\* C11 as stated: when a cycle is over, the readings of the batch for which it
\* called reportData are exactly those with a non-zero timestamp, CO2 > 0
\* and pressure > 0.
C11_ExactlyTheValid ==
    CycleOver => \A i \in DOMAIN all : (i \in ReportedReadings) <=> Wanted(all[i])

\* C11 amended: the readings for which a cycle calls reportData are exactly
\* the readings with a non-zero timestamp, CO2 > 0 and pressure > 0 that the
\* range loop gets to: all of the batch in a cycle that ends without error,
\* those up to the failing one in a cycle that a ReportMetric error ends; a
\* rejected reading causes no ReportMetric call, and a cycle ends with an
\* error only when readData fails or panics or a ReportMetric call returns
\* an error.
C11_Validator ==
    /\ \A i \in DOMAIN all : (i \in ReportedReadings) <=> (i \in Reached /\ Wanted(all[i]))
    /\ (CycleOver /\ result \in {"reporting data", "reporting battery level"})
          => (reported # <<>> /\ Failed.err)
    /\ (CycleOver /\ result = "reporting data") => Wanted(all[Failed.i])

C11_Witness ==
    /\ CycleOver /\ result = "success"
    /\ Len(all) = MaxBatch
    /\ ~Wanted(all[1]) /\ all[1].CO2 = 0
    /\ ReportedReadings = {MaxBatch}

\* C12: the readings of a batch are passed to ReportMetric in non-decreasing
\* timestamp order whatever the order they were acquired in, so no call of a
\* cycle is skipped on account of a reading with a later timestamp reported
\* earlier in the same cycle.
C12_NonDecreasingOrder ==
    /\ \A i, j \in DOMAIN all : i < j => all[i].Time <= all[j].Time
    /\ \A j, k \in DOMAIN reported :
          (j < k /\ reported[j].i > 0 /\ reported[k].i > 0)
              => /\ reported[j].i <= reported[k].i
                 /\ reported[j].ts <= reported[k].ts
    /\ \A k \in DOMAIN reported :
          reported[k].branch = "skipped"
              => ~\E j \in DOMAIN reported :
                    /\ j < k
                    /\ reported[j].name = reported[k].name
                    /\ reported[j].ts > reported[k].ts

C12_Witness ==
    /\ CycleOver /\ result = "success" /\ ~dryRun
    /\ Len(device) = MaxBatch
    /\ device[1].Time > device[MaxBatch].Time
    /\ Len(reported) = MaxBatch * Len(DataMetrics)
    /\ \A k \in DOMAIN reported : reported[k].branch = "ok"

\* C13 as stated: once promsync.New has accepted the configuration, the
\* failure of a refresh cycle never terminates the process.
C13_NeverExits == pc # "exit"

\* C13 amended: the failure of a refresh cycle run by c.run (every cycle but
\* the first) never terminates the process: refresh returns an error, also
\* for a recovered panic, and c.run sleeps and runs another cycle. The
\* process exits only on a failure of the first cycle, which newCollector runs
\* before c.run starts.
C13_FailureNotFatal ==
    /\ pc = "exit" => (cycles = 1 /\ result \notin {"none", "success"})
    /\ (CycleOver /\ cycles > 1) => pc = "run"
    /\ pc = "run" => ENABLED Sleep
    /\ pc = "refresh" => ENABLED StartRefresh

C13_Witness ==
    /\ pc = "read" /\ cycles = MaxCycles + 1
    /\ result = "panic"
    /\ attempts["error"] >= 1

\* C14: lastSuccess changes only in the step that ends a refresh cycle
\* without error, and is then the time of that step; a cycle that returns an
\* error or recovers a panic leaves it as it was.
C14_LastSuccessOnlyOnSuccess ==
    [][/\ lastSuccess' # lastSuccess
            => (pc = "loop" /\ pc' = "run" /\ result' = "success" /\ lastSuccess' = now)
       /\ (pc \in {"read", "battery", "loop"} /\ pc' \in {"run", "exit"} /\ result' # "success")
            => lastSuccess' = lastSuccess]_vars

C14_Witness ==
    /\ CycleOver /\ cycles = MaxCycles
    /\ result = "reporting data"
    /\ lastSuccess # ZeroTime /\ lastSuccess < now

\* ------------------------------------------------------- claims: the web endpoint
\* a submission waits in the select of handlePasskeyPost
Blocked(h) == requests[h].st = "select"

\* C15: at every moment at most one refresh cycle is in progress, whatever
\* requests the web endpoint serves; a cycle is in progress exactly from the
\* call of c.refresh to its return, and a request neither starts nor ends one.
C15_OneRefreshInProgress ==
    /\ inflight <= 1
    /\ inflight = 1 <=> pc \in {"read", "battery", "loop"}

C15_Witness ==
    /\ inflight = 1
    /\ pairing.st = "waiting"
    /\ \E h \in Requests : Blocked(h)
    /\ served.kind = "refresh" /\ ~served.sent
    /\ cycles > 1

\* the response to a number submitted while passkeyChan holds no channel
NoRequestPending == BadRequest("Bad Request: no passkey request pending")

\* the submission was turned down with a client error
Refused(h) == requests[h].st = "done" /\ requests[h].resp.code = 400

\* C16: a passkey submission that arrives while passkeyChan holds no channel
\* is answered at once with a client error, "no passkey request pending" for
\* a value Sscanf accepts, and changes nothing of the mediator; a submission
\* that was turned down stays so, and no pairing attempt, also none that
\* starts later, ever receives its value.
C16_NoPendingRejected ==
    [][\A h \in Requests :
         /\ (requests[h].st = "idle" /\ requests'[h].st # "idle" /\ passkeyChan = NilChan)
               => /\ Refused(h)'
                  /\ ~Sscanf(requests'[h].str).err => requests'[h].resp = NoRequestPending
                  /\ UNCHANGED <<passkeyChan, pairing, winner>>
         /\ Refused(h)
               => /\ requests'[h] = requests[h]
                  /\ pairing'.from # h
                  /\ \A c \in DOMAIN winner' : winner'[c] # h]_vars

C16_Witness ==
    /\ requests[1].resp = NoRequestPending
    /\ requests[1].passkey = 7
    /\ pairing.st = "got"
    /\ pairing.from = MaxRequests
    /\ pairing.passkey = 77

\* C17: a waiting pairing attempt receives one passkey, from one producer
\* (a web submission or the terminal), and that producer stays the only one
\* of the attempt; a web submission answered with the redirect is the
\* producer some attempt received from; every other submission that leaves
\* its select is answered with the timeout error and hands over nothing.
C17_OneProducerWins ==
    [][/\ \A h \in Requests :
            requests'[h].resp = SeeOther => \E c \in DOMAIN winner' : winner'[c] = h
       /\ \A h \in Requests :
            (Blocked(h) /\ ~Blocked(h)')
               => \/ /\ requests'[h].resp = SeeOther
                     /\ pairing.st = "waiting" /\ pairing.ch = requests[h].pkChan
                     /\ pairing' = [pairing EXCEPT !.st = "got", !.from = h,
                                                   !.passkey = requests[h].passkey]
                  \/ /\ requests'[h].resp = TimeoutError
                     /\ UNCHANGED <<pairing, winner>>
       /\ (pairing.st = "waiting" /\ pairing'.st = "got")
               => /\ pairing'.from # Nobody
                  /\ winner[pairing.ch] = Nobody
                  /\ winner' = [winner EXCEPT ![pairing.ch] = pairing'.from]
       /\ pairing.st = "got" => (pairing' = pairing \/ pairing' = NoPairing)
       /\ \A c \in DOMAIN winner : winner[c] # Nobody => winner'[c] = winner[c]]_vars

C17_Witness ==
    /\ pairing.st = "got"
    /\ pairing.from = Terminal
    /\ requests[1].resp = TimeoutError
    /\ Blocked(MaxRequests)
    /\ requests[MaxRequests].pkChan = pairing.ch

\* C18: a passkey submission that found a channel in passkeyChan leaves its
\* select, also when the pairing attempt is over and passkeyChan cleared in
\* the meantime: it hands its passkey to the waiting pairing attempt and is
\* answered with the redirect, or it is answered with the timeout error,
\* having handed over nothing and left the pairing attempt as it was.
C18_SubmissionCompletes ==
    /\ \A h \in Requests : Blocked(h) ~> requests[h].st = "done"
    /\ [][\A h \in Requests :
            (Blocked(h) /\ ~Blocked(h)')
               => /\ requests'[h].st = "done"
                  /\ \/ /\ requests'[h].resp = SeeOther
                        /\ Receiving(requests[h].pkChan)
                        /\ pairing'.st = "got" /\ pairing'.from = h
                        /\ pairing'.passkey = requests[h].passkey
                     \/ /\ requests'[h].resp = TimeoutError
                        /\ UNCHANGED <<pairing, winner, passkeyChan>>]_vars

C18_Witness ==
    /\ requests[1].resp = TimeoutError
    /\ Blocked(MaxRequests)
    /\ passkeyChan = NilChan
    /\ pairing.st = "idle"

\* a form value that is a number: one digit or more and nothing else
Numeric(str) == str # <<>> /\ \A i \in DOMAIN str : str[i] \in DecimalDigits

\* C19: a passkey submission whose value is empty or not a number is turned
\* down with a client error: it does not load passkeyChan, does not block in
\* the select and hands nothing to a pairing attempt.
C19_MalformedRejected ==
    \A h \in Requests :
        (requests[h].st # "idle" /\ ~Numeric(requests[h].str))
            => /\ Refused(h)
               /\ ~requests[h].loaded
               /\ pairing.from # h
               /\ \A c \in DOMAIN winner : winner[c] # h

\* a pairing attempt is outstanding: it waits for the passkey, or its wait is
\* over and it has not yet cleared passkeyChan
Outstanding == pairing.st \in {"waiting", "got", "abandoned"}

\* C20: passkeyChan holds a channel exactly while a pairing attempt is
\* outstanding, and then the channel of that attempt: it is stored in the
\* step that starts the wait and cleared in a step after the delivery or the
\* abandonment; a pairing attempt starts only when none is outstanding, so
\* never two wait; and a status page reports WantPasskey exactly when
\* passkeyChan holds a channel as the page is served.
C20_SlotWhileWaiting ==
    [][/\ (passkeyChan' # NilChan) <=> Outstanding'
       /\ Outstanding' => (passkeyChan' = pairing'.ch /\ pairing'.ch = npair')
       /\ (passkeyChan = NilChan /\ passkeyChan' # NilChan)
             => (pairing.st = "idle" /\ pairing'.st = "waiting" /\ npair' = npair + 1)
       /\ (passkeyChan # NilChan /\ passkeyChan' # passkeyChan)
             => (pairing.st \in {"got", "abandoned"} /\ passkeyChan' = NilChan)
       /\ npair' # npair => (~Outstanding /\ pairing'.st = "waiting")
       /\ (served' # served /\ served'.kind = "status")
             => /\ served'.WantPasskey <=> (passkeyChan # NilChan)
                /\ UNCHANGED <<passkeyChan, pairing>>]_vars

C20_Witness ==
    /\ served.kind = "status" /\ served.WantPasskey
    /\ pairing.st = "waiting"
    /\ npair = MaxCycles
    /\ winner[1] # Nobody

\* ------------------------------------------------------- claims: New and labelSet
\* the endpoint is a scheme (a letter, then letters and digits), "://" and
\* an authority that is not empty
SchemeAndHost(e) ==
    \E i \in 2..(Len(e) - 3) :
        /\ e[1] \in Letters
        /\ \A j \in 1..(i - 1) : e[j] \in Letters \cup Digits
        /\ e[i] = ":" /\ e[i + 1] = "/" /\ e[i + 2] = "/"
        /\ e[i + 3] # "/"

\* C21: New returns an error and no Syncer when the endpoint is empty, when
\* url.Parse fails on it, when the URL has no host and when it has no scheme;
\* it returns a Syncer only for an endpoint made of a scheme, "://" and a host
\* part that is not empty, and the Syncer has an empty lastTimes.
C21_NewValidates ==
    returned.fn = "New" =>
        LET e == config.PrometheusEndpoint
            url == Parse(e)
        IN /\ (e = <<>> \/ url.err \/ url.Host = <<>> \/ url.Scheme = <<>>)
                => (returned.err /\ ~returned.syncer.made)
           /\ returned.err <=> ~returned.syncer.made
           /\ returned.syncer.made
                => /\ SchemeAndHost(e)
                   /\ url.Scheme # <<>> /\ url.Host # <<>>
                   /\ returned.syncer.lastTimes = <<>>
                   /\ lastTimes = <<>>

C21_Witness ==
    /\ returned.fn = "New"
    /\ returned.syncer.made
    /\ config.PrometheusEndpoint = <<"h", ":", "/", "/", "h">>

\* labelSet has returned ll: it holds the name label with the prefixed metric
\* name, every configured label, and nothing else
HoldsAllLabels(ll) ==
    /\ \E i \in DOMAIN ll :
          ll[i] = [Name |-> NameLabel, Value |-> config.MetricPrefix \o returned.metric]
    /\ \A k \in DOMAIN config.Labels :
          \E i \in DOMAIN ll : ll[i] = [Name |-> k, Value |-> config.Labels[k]]
    /\ Len(ll) = 1 + Cardinality(DOMAIN config.Labels)

\* the names of ll are in strictly ascending order: none occurs twice
StrictlyAscending(ll) ==
    \A i, j \in DOMAIN ll : i < j => StringsCompare(ll[i].Name, ll[j].Name) < 0

\* C22 as stated: for every metric name and every configured label map,
\* labelSet returns the name label plus every configured label in strictly
\* ascending order of label name, and every call returns the same.
C22_SortedUnique ==
    returned.fn = "labelSet" =>
        /\ HoldsAllLabels(returned.ll)
        /\ StrictlyAscending(returned.ll)
        /\ labelSet(config, returned.metric) = {returned.ll}

\* C22 amended: labelSet returns the name label plus every configured label
\* in ascending order of label name. When no configured label is named
\* __name__ the order is strictly ascending, no name occurs twice and every
\* call returns the same, whatever the order of the map iteration; a
\* configured label named __name__ comes next to the name label, so that the
\* name occurs twice.
C22_SortedLabels ==
    returned.fn = "labelSet" =>
        /\ HoldsAllLabels(returned.ll)
        /\ \A i, j \in DOMAIN returned.ll :
              i < j => StringsCompare(returned.ll[i].Name, returned.ll[j].Name) <= 0
        /\ NameLabel \notin DOMAIN config.Labels
              => /\ StrictlyAscending(returned.ll)
                 /\ labelSet(config, returned.metric) = {returned.ll}
        /\ NameLabel \in DOMAIN config.Labels
              => \E i \in DOMAIN returned.ll :
                    /\ i < Len(returned.ll)
                    /\ returned.ll[i].Name = NameLabel
                    /\ returned.ll[i + 1].Name = NameLabel

C22_Witness ==
    /\ returned.fn = "labelSet"
    /\ DOMAIN config.Labels = {"Job", "job"}
    /\ returned.ll[2].Name = NameLabel
    /\ returned.ll[2].Value = <<"p", "m">>

\* ------------------------------------------------------- claims: the cycle
\* a backend request of cycle k has got no response
StalledIn(k) == stalled # "no" /\ cycles = k

\* cycle k has ended with the error of its last ReportMetric call
TimedOut(k) ==
    /\ cycles = k
    /\ stalled = "no"
    /\ CycleOver
    /\ result \in {"reporting battery level", "reporting data"}
    /\ Failed.err

\* C23 as stated: when a backend query or write never responds, the cycle
\* ends with an error and the scheduler goes on to start a later cycle,
\* whichever cycle it is.
C23_SchedulerGoesOn ==
    \A k \in 1..MaxCycles : StalledIn(k) ~> (cycles = k + 1)

\* C23 amended: when a backend query or write never responds, the
\* ReportMetric call returns an error once the deadline of the cycle's
\* context has passed, and the cycle ends with an error outcome. After a cycle
\* run by the scheduler loop the scheduler goes on to start a later cycle;
\* after the first cycle, which newCollector runs, main exits. The program
\* never waits for the backend forever.
C23_DeadlineEndsCall ==
    /\ [][(stalled # "no" /\ stalled' = "no")
            => /\ ctx.ok
               /\ now' >= ctx.deadline
               /\ attempts'["error"] = attempts["error"] + 1
               /\ TimedOut(cycles)']_vars
    /\ \A k \in 1..MaxCycles : StalledIn(k) ~> TimedOut(k)
    /\ \A k \in 2..MaxCycles : StalledIn(k) ~> (cycles = k + 1 /\ pc = "read")
    /\ StalledIn(1) ~> (pc = "exit")

C23_Witness ==
    /\ TimedOut(2)
    /\ pc = "run"
    /\ Failed.branch = "writefail"
    /\ now = lastSuccess + interval + RefreshTimeout

\* C24: on a first run with no stored bond, the web endpoint is serving when
\* the pairing attempt of the first refresh cycle asks for a passkey.
C24_ServingAtFirstPairing ==
    (cycles = 1 /\ pc = "read" /\ pairing.st = "waiting") => Serving

\* ------------------------------------------------------- claims: the cache
\* s.lastTimes[name] read as Go reads a map: the zero instant without an entry
Cached(lt, name) == IF name \in DOMAIN lt THEN lt[name] ELSE ZeroTime

\* the last-known time the call c resolved with the cache lt: the cached
\* value, or on a cold cache the time of the one series the backend answered
\* with, the zero instant when it answered with none
Resolved(lt, c) ==
    IF c.name \in DOMAIN lt THEN lt[c.name]
    ELSE IF Len(c.q.vec) = 1 THEN BackendTime(c.q.vec[1])
    ELSE ZeroTime

\* C25: a ReportMetric call that returns skipped sends no write and does not
\* advance the cache: lastTimes[name] afterwards is the resolved last-known
\* time (the cached value, or on a cold cache the value obtained from the
\* backend), not the call's timestamp unless the two are equal, and no other
\* entry changes.
C25_SkippedLeavesCache ==
    [][(ncalls' = ncalls + 1 /\ call'.branch = "skipped")
          => /\ ~call'.err
             /\ call'.sent = 0
             /\ backend' = backend
             /\ Cached(lastTimes', call'.name) = Resolved(lastTimes, call')
             /\ call'.ts <= Resolved(lastTimes, call')
             /\ (Cached(lastTimes', call'.name) = call'.ts
                    => call'.ts = Resolved(lastTimes, call'))
             /\ call'.name \in DOMAIN lastTimes => lastTimes' = lastTimes
             /\ \A m \in Metrics \ {call'.name} :
                   /\ (m \in DOMAIN lastTimes') = (m \in DOMAIN lastTimes)
                   /\ Cached(lastTimes', m) = Cached(lastTimes, m)]_vars

C25_Witness ==
    /\ Called /\ call.branch = "skipped"
    /\ call.queried /\ Len(call.q.vec) = 1
    /\ call.name \in DOMAIN lastTimes
    /\ lastTimes[call.name] = BackendTime(call.q.vec[1])
    /\ call.ts < lastTimes[call.name]

\* C26: once lastTimes has an entry for a metric it keeps one, and no
\* ReportMetric call for that metric issues a backend query; a query is issued
\* only by a call that passes validation while the metric has no entry.
C26_NoQueryOnceCached ==
    [][/\ \A m \in DOMAIN lastTimes : m \in DOMAIN lastTimes'
       /\ (ncalls' = ncalls + 1 /\ call'.queried)
             => /\ call'.name \notin DOMAIN lastTimes
                /\ Valid(call'.ts, call'.now)
                /\ call'.q # NoQuery]_vars

C26_Witness ==
    /\ Called /\ ncalls = 2
    /\ ~call.queried /\ call.branch = "ok"
    /\ Len(backend[call.name]) = 2

\* C27: across any sequence of ReportMetric calls, an entry of lastTimes is
\* never removed and its value never decreases.
C27_EntriesNeverDecrease ==
    [][\A m \in DOMAIN lastTimes :
          /\ m \in DOMAIN lastTimes'
          /\ lastTimes'[m] >= lastTimes[m]]_vars

C27_Witness ==
    /\ Called /\ ncalls = 2
    /\ call.branch = "skipped"
    /\ call.name \in DOMAIN lastTimes
    /\ call.ts < lastTimes[call.name]
    /\ Len(backend[call.name]) = 1
    /\ SampleTime(backend[call.name][1]) <= lastTimes[call.name]

\* ------------------------------------------------------- claims: the scheduler
\* c.run sleeps before the next cycle
Sleeps == pc = "run" /\ pc' = "refresh"

\* C28: the scheduler takes the 1-second backoff only when the previous cycle
\* failed (no cycle overruns the interval here); after a cycle that completes
\* without error, whatever the number of readings it acquired, it sleeps until
\* the completion time of that cycle plus the interval.
C28_BackoffOnlyAfterFailure ==
    [][Sleeps
          => /\ WaitFor(lastSuccess, now) <= 0 => result # "success"
             /\ result = "success" => (slept' = interval /\ now' = now + interval)]_vars

CycleEnds == pc \in {"read", "battery", "loop"} /\ pc' \in {"run", "exit"}

\* C30: every refresh cycle records exactly one observation in the latency
\* histogram, when it ends: labelled error when the cycle returned an error
\* or recovered a panic, success otherwise. No other step records one, so the
\* observations are as many as the cycles that have ended.
C30_OneObservationPerCycle ==
    [][/\ CycleEnds
            => /\ result' # "none"
               /\ attempts' = [attempts EXCEPT
                                 ![IF result' = "success" THEN "success" ELSE "error"] = @ + 1]
       /\ ~CycleEnds => attempts' = attempts
       /\ attempts'["success"] + attempts'["error"] = cycles' - inflight']_vars

C30_Witness ==
    /\ pc = "run" /\ cycles = 2
    /\ result = "panic"
    /\ attempts = [success |-> 1, error |-> 1]

\* ------------------------------------------------------- claims: the endpoint and the terminal
\* the step answers a refresh request
AnswersRefresh == served' # served /\ served'.kind = "refresh"

\* C31: a refresh request never blocks and never interrupts or restarts a
\* cycle that is running: the handler can always run to its end, it hands over
\* the trigger when the scheduler is ready to take it and drops it otherwise,
\* leaving the collector as it is, and it always answers with the redirect.
C31_RefreshNeverInterrupts ==
    /\ [](ENABLED handleRefreshPost)
    /\ [][AnswersRefresh
            => /\ served'.resp = SeeOther
               /\ served'.sent = Listening
               /\ UNCHANGED <<cycles, inflight, lastSuccess, lastReported, result,
                              attempts, device, syncerVars>>
               /\ Listening => pc' = "refresh"
               /\ ~Listening => UNCHANGED collectorVars]_vars

C31_Witness ==
    /\ pc = "battery" /\ inflight = 1 /\ cycles = 2
    /\ served.kind = "refresh" /\ ~served.sent
    /\ served.resp = SeeOther

\* C32: the terminal passkey procedure returns only a value that was parsed
\* as an integer, and on every malformed or failed read it prompts and reads
\* again, however many reads have failed before.
C32_RetriesWithoutBound ==
    [][(tty.st = "reading" /\ tty' # tty)
          => IF tty'.eof \/ Sscanf(tty'.str).err
             THEN tty'.st = "reading"
             ELSE /\ tty'.st = "returned"
                  /\ tty'.p = Sscanf(tty'.str).passkey]_vars

\* ------------------------------------------------------- claims: the batch
\* sorted holds the readings of input in ascending order of time, those with
\* equal times in the order they have in input
StableSorted(input, sorted) ==
    /\ Len(sorted) = Len(input)
    /\ \E p \in Perms(Len(input)) :
          /\ \A i \in DOMAIN sorted : sorted[i] = input[p[i]]
          /\ \A i, j \in DOMAIN sorted :
                i < j => \/ sorted[i].Time < sorted[j].Time
                         \/ sorted[i].Time = sorted[j].Time /\ p[i] < p[j]

\* the readings of a batch that pass the checks of the range loop
AcceptedOf(batch) == SelectSeq(batch, LAMBDA data : ~Rejected(data))

\* C33: the ordering of a batch before it is reported is stable: accepted
\* readings with equal timestamps are reported in the order they have in the
\* acquired batch.
C33_StableOrder ==
    pc \in {"battery", "loop"} => StableSorted(AcceptedOf(device), AcceptedOf(all))

C35_NoValidationError ==
    \A i \in DOMAIN reported : reported[i].branch \notin {"zero", "future"}

\* the step makes a ReportMetric call that returns an error
CallFails == Len(reported') = Len(reported) + 1 /\ reported'[Len(reported')].err

\* C36: the first ReportMetric call of a cycle that returns an error ends the
\* cycle in the same step, with an error outcome and with lastReported and
\* lastSuccess as they were; calls are made only inside the one cycle in
\* progress, and among the calls of one cycle only the last one has failed,
\* so the failed cycle makes no further call. lastReported changes only at the
\* end of a successful cycle.
C36_FirstErrorEndsCycle ==
    [][/\ CallFails
            => /\ CycleEnds
               /\ inflight' = 0
               /\ result' \in {"reporting battery level", "reporting data"}
               /\ UNCHANGED <<lastReported, lastSuccess>>
       /\ Len(reported') > Len(reported) => pc \in {"battery", "loop"} /\ inflight = 1
       /\ \A i \in 1..(Len(reported') - 1) : ~reported'[i].err
       /\ lastReported' # lastReported => CycleEnds /\ result' = "success"]_vars

C36_Witness ==
    /\ pc = "run" /\ cycles = 2
    /\ result = "reporting data"
    /\ Len(all) = 2 /\ idx = 1 /\ metricIdx = 2
    /\ ~Rejected(all[2])
    /\ reported # <<>>
    /\ reported[Len(reported)].err
    /\ reported[Len(reported)].name = DataMetrics[2]
    /\ DataMetrics[1] \in DOMAIN lastTimes
    /\ lastTimes[DataMetrics[1]] = all[1].Time
    /\ lastReported = ZeroTime

\* ------------------------------------------------------- claims: a batch tried again
\* the timestamps of the readings of the batch that the range loop reports
AcceptedTimes(batch) == {batch[i].Time : i \in {j \in DOMAIN batch : ~Rejected(batch[j])}}

\* the backend has accepted one sample of the metric for each timestamp of
\* the accepted readings, and no other
OncePerPair(name) ==
    /\ Len(backend[name]) = Cardinality(AcceptedTimes(all))
    /\ \A t \in AcceptedTimes(all) : \E i \in DOMAIN backend[name] : backend[name][i] = UnixMilli(t)

\* a cycle has failed in a ReportMetric call, and a later cycle has gone
\* through the same batch to its end
RetriedToEnd ==
    /\ pc = "run" /\ cycles > 2
    /\ attempts["error"] > 0
    /\ result = "success"

\* C37, as stated: after the later cycle the backend has accepted every
\* (metric, timestamp) pair of the accepted readings exactly once.
C37_EveryPairOnce ==
    RetriedToEnd => \A k \in DOMAIN DataMetrics : OncePerPair(DataMetrics[k])

\* C37, amended: in normal mode the backend has accepted every pair exactly
\* once; in dry-run mode it has accepted none, the pairs being marked as
\* written in the cache only.
C37_EveryPairOnceUnlessDryRun ==
    RetriedToEnd
        => \A k \in DOMAIN DataMetrics :
              /\ ~dryRun => OncePerPair(DataMetrics[k])
              /\ dryRun => backend[DataMetrics[k]] = <<>>
              /\ AcceptedTimes(all) # {}
                    => /\ DataMetrics[k] \in DOMAIN lastTimes
                       /\ \A t \in AcceptedTimes(all) : lastTimes[DataMetrics[k]] >= t

C37_Witness ==
    /\ RetriedToEnd
    /\ ~dryRun
    /\ cycles = 3
    /\ Cardinality(AcceptedTimes(all)) = 2
    /\ \A k \in DOMAIN DataMetrics : Len(backend[DataMetrics[k]]) = 2
    /\ \E i \in DOMAIN reported : reported[i].branch = "skipped"
    /\ \E i \in DOMAIN reported : reported[i].branch = "ok"

\* ------------------------------------------------------- claims: the restart
\* the step is a ReportMetric call of a new Syncer, on a cold cache, for the
\* sample that the backend accepted last
ReportsAgain ==
    /\ call = NoCall /\ call' # NoCall
    /\ call'.queried
    /\ last.branch = "ok"
    /\ call'.name = last.name /\ call'.ts = last.ts

\* C38: a new Syncer recovers from the backend a last-written time that is
\* not earlier than the timestamp of the sample written last, so that the
\* same sample reported again after a restart is skipped, not written again.
C38_RecoveredNotEarlier ==
    [][ReportsAgain
          => /\ call'.branch = "skipped"
             /\ lastTimes'[last.name] >= last.ts
             /\ backend' = backend]_vars

\* ------------------------------------------------------- claims: the frame of a call
\* the cache with no entry but that of the metric
OwnEntry(lt, name) == [m \in DOMAIN lt \cap {name} |-> lt[m]]

\* the step is a ReportMetric call
Calls == call = NoCall /\ call' # NoCall

\* C39: a ReportMetric call for a metric adds, changes and removes no
\* lastTimes entry of another metric, whatever its outcome, and its outcome
\* (skipped or not) is the one the call has on a cache that holds nothing but
\* the metric's own entry, given the same answer of the backend.
C39_OtherEntriesUntouched ==
    [][Calls
          => /\ \A m \in Metrics \ {call'.name} :
                   /\ m \in DOMAIN lastTimes' <=> m \in DOMAIN lastTimes
                   /\ m \in DOMAIN lastTimes => lastTimes'[m] = lastTimes[m]
             /\ LET own == ReportMetric(dryRun, OwnEntry(lastTimes, call'.name), metricWrites,
                                        call'.name, call'.ts, call'.value, now, call'.q, call'.wok)
                IN /\ call'.branch = own.branch
                   /\ call'.queried = own.queried
                   /\ call'.name \in DOMAIN lastTimes'
                         => lastTimes'[call'.name] = own.lastTimes[call'.name]]_vars

C39_Witness ==
    /\ call # NoCall
    /\ call.branch = "skipped"
    /\ call.queried
    /\ \E m \in Metrics \ {call.name} :
          /\ m \in DOMAIN lastTimes
          /\ lastTimes[m] > ZeroTime
          /\ lastTimes[m] < call.ts
          /\ lastTimes[call.name] >= call.ts

====
